------------------------------ MODULE Accounts ------------------------------
(***************************************************************************)
(* Accounts by e-mail address (auth.service.ts, admin.service.ts):         *)
(* registration, which also brings back an account that an administrator   *)
(* had deleted softly, the codes that verify an address, and what such     *)
(* deletions leave behind.  A registration looks, then writes; a code is   *)
(* written in a transaction that first uses up the ones it can see.        *)
(***************************************************************************)
EXTENDS Age, Sequences

CONSTANTS
  Email, Request,
  Birth, Today,  \* birth dates people give, and the day it is
  MaxApplied,    \* bound: requests served in all
  None

VARIABLES
  account,    \* account[e] : the row of address e
  codes,      \* rows of EmailVerification, oldest first
  bars,       \* bars[n] : the bar whose slug has the number n
  progress,   \* progress[e] : lives of the account whose work has left rows
  applied, form,
  carried,    \* history: <<e, l>> whose work of life l was written in a later one
  overlapped  \* history: addresses whose last two codes were made at once

vars == <<account, codes, bars, progress, applied, form, carried, overlapped>>

Life == 0..MaxApplied
Slug == 1..MaxApplied
Gone == [state |-> "none", life |-> 0, row |-> 0, by |-> None, role |-> None,
         born |-> None, verified |-> FALSE]
NoBar == [owner |-> None, gone |-> TRUE, taken |-> FALSE]
Idle == [at |-> "idle", who |-> None, role |-> None, born |-> None, row |-> 0,
         life |-> 0, rows |-> {}, over |-> FALSE]

Exists(e) == account[e].state # "none"
\* The rows of e's account that were not used yet.
Usable(e) == {i \in DOMAIN codes : Exists(e) /\ codes[i].of = e /\ codes[i].row = account[e].row
                                   /\ ~codes[i].used}
BarOf(e) == {n \in Slug : bars[n].owner = e}
FreeSlug == CHOOSE n \in Slug : ~bars[n].taken /\ \A k \in 1..(n - 1) : bars[k].taken
\* wipeUserProgressData, of an account that is deleted or comes back.
Wiped(e) == [progress EXCEPT ![e] = {}]
Used(is) == [i \in DOMAIN codes |-> [codes[i] EXCEPT !.used = @ \/ i \in is]]

-----------------------------------------------------------------------------

Init ==
  /\ account \in [Email -> {Gone} \cup [state : {"live", "soft"}, life : {0}, row : {0}, by : {None},
                                        role : {None}, born : {None}, verified : {FALSE}]]
  /\ codes = <<>>
  /\ bars = [n \in Slug |-> NoBar]
  /\ progress = [e \in Email |-> {}]
  /\ applied \in 0..MaxApplied
  /\ form = [r \in Request |-> Idle]
  /\ carried = {} /\ overlapped = {}

Arrives(r) == applied' = applied + 1
At(r, l) == form[r].at = l
Goto(r, l) == form' = [form EXCEPT ![r].at = l]
Return(r) == form' = [form EXCEPT ![r] = Idle]
history == <<carried, overlapped>>

-----------------------------------------------------------------------------
(* Registration *)

\* register: an address in use is refused; a USER gives a birth date.
BeginRegister(r, e, role, b) ==
  /\ Arrives(r)
  /\ account[e].state # "live"
  /\ role = "USER" => Adult(b, Today)
  /\ form' = [form EXCEPT ![r] = [Idle EXCEPT
       !.at = IF account[e].state = "soft" THEN "restore" ELSE "create",
       !.who = e, !.role = role, !.born = b, !.row = account[e].row, !.life = account[e].life]]
  /\ UNCHANGED <<account, codes, bars, progress, history>>

\* The row of a registration by r, verified by no one.
Registered(r, row) ==
  LET e == form[r].who IN
  [state |-> "live", life |-> account[e].life + 1, row |-> row, by |-> r,
   role |-> form[r].role, born |-> form[r].born, verified |-> FALSE]

\* createBarForOwner, with a slug nobody has (its trial is Subscriptions').
WithBar(e) == [bars EXCEPT ![FreeSlug] = [owner |-> e, gone |-> FALSE, taken |-> TRUE]]

\* The address is unique: the second of two that saw it free fails.
Create(r) ==
  LET e == form[r].who IN
  /\ At(r, "create")
  /\ IF Exists(e) THEN Return(r) /\ UNCHANGED <<account, bars>>
     ELSE /\ account' = [account EXCEPT ![e] = Registered(r, account[e].life + 1)]
          /\ bars' = IF form[r].role = "BAR" THEN WithBar(e) ELSE bars
          /\ Goto(r, "code")
  /\ UNCHANGED <<codes, progress, applied, history>>

\* An owner's bar comes back with them; who has none gets one.
OwnersBar(e, role) ==
  IF role # "BAR" THEN bars
  ELSE IF BarOf(e) = {} THEN WithBar(e)
  ELSE [n \in Slug |-> IF n \in BarOf(e) THEN [bars[n] EXCEPT !.gone = FALSE] ELSE bars[n]]

\* Mutant of Restore: what the account had done stays.
RestoreAll(r) ==
  LET e == form[r].who IN
  /\ At(r, "restore")
  /\ IF ~Exists(e) \/ account[e].row # form[r].row THEN Return(r) /\ UNCHANGED <<account, bars>>
     ELSE /\ account' = [account EXCEPT ![e] = Registered(r, account[e].row)]
          /\ bars' = OwnersBar(e, form[r].role)
          /\ Goto(r, "code")
  /\ UNCHANGED <<codes, progress, applied, history>>

\* The softly deleted account comes back, whatever has become of it since, with
\* the new password and nothing of what it had done.
Restore(r) ==
  LET e == form[r].who IN
  /\ At(r, "restore")
  /\ IF ~Exists(e) \/ account[e].row # form[r].row
       THEN Return(r) /\ UNCHANGED <<account, bars, progress>>
     ELSE /\ account' = [account EXCEPT ![e] = Registered(r, account[e].row)]
          /\ progress' = Wiped(e)
          /\ bars' = OwnersBar(e, form[r].role)
          /\ Goto(r, "code")
  /\ UNCHANGED <<codes, applied, history>>

-----------------------------------------------------------------------------
(* Codes *)

\* resendVerification: not within a minute of the last one.
Resend(r, e) ==
  /\ Arrives(r)
  /\ account[e].state = "live" /\ ~account[e].verified
  /\ \A i \in Usable(e) : codes[i].age = "hot" => \E j \in Usable(e) : j > i
  /\ form' = [form EXCEPT ![r] = [Idle EXCEPT !.at = "code", !.who = e]]
  /\ UNCHANGED <<account, codes, bars, progress, history>>

\* createVerificationToken: the transaction's update sees the codes there are.
ScanCodes(r) ==
  LET e == form[r].who
      others == {q \in Request \ {r} : At(q, "insert") /\ form[q].who = e}
  IN
  /\ At(r, "code")
  /\ form' = [q \in Request |->
       IF q = r THEN [form[r] EXCEPT !.at = "insert", !.rows = Usable(e), !.over = others # {},
                                     !.row = account[e].row]
       ELSE [form[q] EXCEPT !.over = @ \/ q \in others]]
  /\ UNCHANGED <<account, codes, bars, progress, applied, history>>

\* It commits; without the account it fails.
InsertCode(r) ==
  LET e == form[r].who IN
  /\ At(r, "insert")
  /\ IF Exists(e) /\ account[e].row = form[r].row
       THEN /\ codes' = Append(Used(form[r].rows),
                               [of |-> e, row |-> account[e].row, used |-> FALSE, age |-> "hot"])
            /\ overlapped' = IF form[r].over THEN overlapped \cup {e} ELSE overlapped \ {e}
       ELSE UNCHANGED <<codes, overlapped>>
  /\ Return(r)
  /\ UNCHANGED <<account, bars, progress, applied, carried>>

\* verifyEmail: a code that is neither used nor old, of whoever has it (codes
\* have six digits) ...
FindCode(r, i) ==
  /\ Arrives(r)
  /\ i \in Usable(codes[i].of) /\ codes[i].age # "old"
  /\ form' = [form EXCEPT ![r] = [Idle EXCEPT !.at = "verify", !.who = codes[i].of,
                                  !.rows = {i}, !.row = codes[i].row]]
  /\ UNCHANGED <<account, codes, bars, progress, history>>

\* ... verifies its account, though another may have used it since.
Verify(r) ==
  LET e == form[r].who IN
  /\ At(r, "verify")
  /\ IF Exists(e) /\ account[e].row = form[r].row
       THEN account' = [account EXCEPT ![e].verified = TRUE] /\ codes' = Used(form[r].rows)
       ELSE UNCHANGED <<account, codes>>
  /\ Return(r)
  /\ UNCHANGED <<bars, progress, applied, history>>

\* A minute or a quarter of an hour goes by.
Elapse(from, to) ==
  /\ \E i \in DOMAIN codes : codes[i].age \in from
  /\ codes' = [i \in DOMAIN codes |->
                 [codes[i] EXCEPT !.age = IF @ \in from THEN to ELSE @]]
  /\ UNCHANGED <<account, bars, progress, applied, form, history>>

-----------------------------------------------------------------------------
(* What an account does, and its deletion *)

\* A request of a live account; it is written later.
BeginEarn(r, e) ==
  /\ Arrives(r)
  /\ account[e].state = "live"
  /\ form' = [form EXCEPT ![r] = [Idle EXCEPT !.at = "earn", !.who = e, !.row = account[e].row,
                                  !.life = account[e].life]]
  /\ UNCHANGED <<account, codes, bars, progress, history>>

Earn(r) ==
  LET e == form[r].who IN
  /\ At(r, "earn")
  /\ IF Exists(e) /\ account[e].row = form[r].row
       THEN /\ progress' = [progress EXCEPT ![e] = @ \cup {form[r].life}]
            /\ carried' = IF form[r].life # account[e].life
                            THEN carried \cup {<<e, form[r].life>>} ELSE carried
       ELSE UNCHANGED <<progress, carried>>
  /\ Return(r)
  /\ UNCHANGED <<account, codes, bars, applied, overlapped>>

\* softDeleteUser keeps the row, its codes and its bar.
SoftDelete(e) ==
  /\ Exists(e)
  /\ applied < MaxApplied /\ applied' = applied + 1
  /\ account' = [account EXCEPT ![e].state = "soft"]
  /\ progress' = Wiped(e)
  /\ UNCHANGED <<codes, bars, form, history>>

\* The owner's deletion (Erasure) takes the row; the bar and its slug remain.
Erase(e) ==
  /\ account[e].state = "live"
  /\ applied < MaxApplied /\ applied' = applied + 1
  /\ account' = [account EXCEPT ![e] = [Gone EXCEPT !.life = account[e].life]]
  /\ progress' = Wiped(e)
  /\ bars' = [n \in Slug |-> IF n \in BarOf(e)
                THEN [bars[n] EXCEPT !.owner = None, !.gone = TRUE] ELSE bars[n]]
  /\ UNCHANGED <<codes, form, history>>

\* A query fails or the process dies.
Fail(r) == Return(r) /\ UNCHANGED <<account, codes, bars, progress, applied, history>>

Free == {r \in Request : form[r] = Idle /\ applied < MaxApplied}
Busy == {r \in Request : form[r] # Idle}

Next ==
  \/ \E r \in Free, e \in Email :
       \/ \E b \in Birth, role \in {"USER", "BAR"} : BeginRegister(r, e, role, b)
       \/ Resend(r, e) \/ BeginEarn(r, e)
  \/ \E r \in Free, i \in DOMAIN codes : FindCode(r, i)
  \/ \E r \in Busy :
       Create(r) \/ Restore(r) \/ ScanCodes(r) \/ InsertCode(r) \/ Verify(r) \/ Earn(r) \/ Fail(r)
  \/ \E e \in Email : SoftDelete(e) \/ Erase(e)
  \/ Elapse({"hot"}, "warm") \/ Elapse({"hot", "warm"}, "old")

-----------------------------------------------------------------------------

TypeOK ==
  /\ account \in [Email -> [state : {"none", "live", "soft"}, life : Life, row : Life,
                            by : Request \cup {None}, role : {"USER", "BAR", None},
                            born : Birth \cup {None}, verified : BOOLEAN]]
  /\ \A i \in DOMAIN codes : codes[i] \in [of : Email, row : Life, used : BOOLEAN,
                                           age : {"hot", "warm", "old"}]
  /\ bars \in [Slug -> [owner : Email \cup {None}, gone : BOOLEAN, taken : BOOLEAN]]
  /\ progress \in [Email -> SUBSET Life] /\ applied \in 0..MaxApplied
  /\ overlapped \subseteq Email /\ carried \subseteq Email \X Life
  /\ \A r \in Request : form[r].at \in {"idle", "create", "restore", "code", "insert",
                                        "verify", "earn"}

\* An account has at most one code that can still be used, the last one sent,
\* unless the last two were made at the same time.
OneCode == \A e \in Email : Cardinality(Usable(e)) <= 1 \/ e \in overlapped

\* An account that comes back starts from nothing: what it had done before does
\* not count, but for a request that was under way in its former life and was
\* written in this one.
FreshStart == \A e \in Email : \A l \in progress[e] :
  l = account[e].life \/ <<e, l>> \in carried

\* A bar's account that can log in owns one bar, which is not deleted; and who
\* registers has had eighteen birthdays.
OwnersHaveBars == \A e \in Email : account[e].state = "live" =>
  /\ Cardinality(BarOf(e)) <= 1
  /\ account[e].role = "BAR" => \E n \in BarOf(e) : ~bars[n].gone
  /\ account[e].role = "USER" =>
       Cardinality(Birthdays(account[e].born, Today)) >= Majority

\* A registration takes a live account over only if it had seen it deleted, and
\* another has brought it back since.
AccountStands ==
  \A e \in Email : account[e].state = "live" /\ account'[e].by # account[e].by =>
    \/ account'[e].state = "none"
    \/ \E r \in Request : account'[e].by = r /\ form[r].life < account[e].life
=============================================================================
