---------------------------- MODULE MCBarMissions ----------------------------
(* Small instances of BarMissions and MedalViews for TLC. *)
EXTENDS MedalViews, TLC

CONSTANTS r1, r2, s1, s2, m1, m2, d1, d2, v1, p1

MCTriple == {Template \ {"SCAN_TWO_DAYS"}}
MCWindow == {{1}}
MCAsk == {[mode |-> "ALL", visits |-> 1, drinks |-> 0, missions |-> {"SCAN_TWO_DRINKS"}, xp |-> TRUE],
          [mode |-> "ANY", visits |-> 0, drinks |-> 2, missions |-> {"RESERVE_PARTY_OF_TWO"}, xp |-> FALSE]}
Symmetry == Permutations({r1, r2}) \cup Permutations({d1, d2})
              \cup Permutations({s1, s2}) \cup Permutations({m1, m2})

StartedWith(s, v, a) ==
  /\ \E T \in Triple, days \in Window :
       /\ status = [z \in Season |-> IF z = s THEN "ACTIVE" ELSE "unborn"]
       /\ window = [z \in Season |-> IF z = s THEN days ELSE {}]
       /\ missions = [z \in Season |-> IF z = s THEN T ELSE {}]
  /\ changes = 2
  /\ generation = [z \in Season |-> 0]
  /\ medal = [w \in Version |-> IF w = v THEN [season |-> s, generation |-> 0, ask |-> a] ELSE None]
  /\ official = v /\ operational = TRUE /\ today = 1
  /\ unlocks = {} /\ visits = {} /\ parties = {}
  /\ completed = {} /\ earned = {} /\ ledger = {} /\ notified = {}
  /\ pc = [r \in Request |-> "idle"]
  /\ at = [r \in Request |-> None]
  /\ rows = [r \in Request |-> {}]
  /\ seen = [r \in Request |-> {}]
  /\ span = [r \in Request |-> {}]
  /\ version = [r \in Request |-> None]
  /\ plan = [r \in Request |-> None]
  /\ ending = [r \in Request |-> {}]
  /\ due = FALSE

VARIABLE asking  \* whether answers are asked for, while the server works on one other request

\* Then a season and its medal have become ACTIVE already.
MCInit ==
  \/ asking = FALSE /\ ViewsInit
  \/ asking = TRUE /\ view = NoView
     /\ \E s \in Season, v \in Version, a \in Ask : StartedWith(s, v, a)

Alone == \A q, r \in Request : q = r \/ "idle" \in {pc'[q], pc'[r]}

MCNext ==
  /\ UNCHANGED asking
  /\ \/ ~asking /\ Next /\ UNCHANGED view
     \/ asking /\ ViewsNext /\ Alone

MCSpec == MCInit /\ [][MCNext]_<<vars, view, asking>>
==============================================================================
