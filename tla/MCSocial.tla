------------------------------ MODULE MCSocial ------------------------------
(***************************************************************************)
(* Small instances of Social.  Sockets share no state with friendships and *)
(* rooms, so nothing is lost when one behaviour has room for the ones or   *)
(* for the others.  The feed reads what Friends and Chat write: while it   *)
(* has requests, these have one.                                           *)
(***************************************************************************)
EXTENDS Social, TLC

CONSTANTS p1, p2, k1, k2

MCBirth == {[y |-> 2008, m |-> 3, d |-> 1], [y |-> 2008, m |-> 3, d |-> 2],
            [y |-> 2007, m |-> 2, d |-> 30], [y |-> 2027, m |-> 1, d |-> 1]}
MCToday == [y |-> 2026, m |-> 3, d |-> 1]

\* Majority counts birthdays, through leap years and impossible dates.
ASSUME AgeAgrees ==
  \A b \in [y : {1906, 2008, 2012, 2026}, m : {0, 2, 3, 12, 13}, d : {0, 1, 28, 29, 30, 31}],
     t \in [y : {2026, 2028, 2030}, m : {1, 2, 3, 12}, d : {1, 28}] :
       A!Adult(b, t) <=> /\ A!ValidDate(b) /\ t.y - b.y <= 120
                         /\ Cardinality(A!Birthdays(b, t)) >= 18

Spent(requests, connections, posts, notes, accounts, deletions) ==
  /\ served = requests /\ arrived = connections /\ fed = posts /\ sent = notes
  /\ applied = accounts /\ erased = deletions

NoRooms == C!Unused = Room
NoTies == friends = {} /\ acted = {} /\ NoRooms
NoPosts == \A p \in Post : ~W!Written(p)
OnePost == {p \in Post : W!Written(p)} = {p1} /\ comment[k2] = W!NoComment
Wanting == wants = [u \in User |-> [push |-> TRUE, gated |-> TRUE]]
NoNotes == Wanting /\ owner = [d \in Device |-> None]

NoAccounts == account = [e \in Email |-> A!Gone]
OneObject == Cardinality({o \in Object : object[o].stored}) <= 1
NoObjects == object = [o \in Object |-> E!New]

MCInit ==
  \/ Spent(0, MaxArrived, MaxFed, MaxSent, MaxApplied, MaxErased)
     /\ NoNotes /\ NoAccounts /\ NoObjects /\ Init /\ NoPosts
  \/ Spent(MaxServed, 0, MaxFed, MaxSent, MaxApplied, MaxErased)
     /\ NoNotes /\ NoAccounts /\ NoObjects /\ Init /\ NoTies /\ NoPosts
  \/ Spent(MaxServed, MaxArrived, 0, MaxSent, MaxApplied, MaxErased)
     /\ NoNotes /\ NoAccounts /\ NoObjects /\ Init /\ NoRooms /\ OnePost
  \/ Spent(MaxServed - 1, MaxArrived, MaxFed - 1, MaxSent, MaxApplied, MaxErased)
     /\ NoNotes /\ NoAccounts /\ NoObjects /\ Init /\ NoRooms /\ OnePost /\ friends # {}
  \/ Spent(MaxServed - 1, MaxArrived, MaxFed - 1, MaxSent, MaxApplied, MaxErased)
     /\ NoNotes /\ NoAccounts /\ NoObjects
     /\ Init /\ NoPosts /\ \E x \in Room : room[x].kind = "GROUP"
  \/ Spent(MaxServed, MaxArrived, MaxFed, 0, MaxApplied, MaxErased)
     /\ Wanting /\ NoAccounts /\ NoObjects /\ Init /\ NoTies /\ NoPosts
  \/ Spent(MaxServed, MaxArrived, MaxFed, MaxSent, 0, MaxErased)
     /\ NoNotes /\ NoObjects /\ Init /\ NoTies /\ NoPosts
  \/ Spent(MaxServed, MaxArrived, MaxFed, MaxSent, MaxApplied, 0)
     /\ NoNotes /\ NoAccounts /\ Init /\ OneObject /\ NoTies /\ NoPosts

MCSpec == MCInit /\ [][Next]_vars

Symmetry == Permutations(User) \cup Permutations(Room) \cup Permutations(Request)

=============================================================================
