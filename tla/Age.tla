-------------------------------- MODULE Age ---------------------------------
(***************************************************************************)
(* Who is of age (age.util.ts): civil dates as records of year, month and  *)
(* day, of which only the verdict of the check is kept.                    *)
(***************************************************************************)
EXTENDS Integers, FiniteSets

Majority == 18
Leap(y) == y % 4 = 0 /\ (y % 100 # 0 \/ y % 400 = 0)
DaysIn(y, m) == IF m = 2 THEN IF Leap(y) THEN 29 ELSE 28
                ELSE IF m \in {4, 6, 9, 11} THEN 30 ELSE 31

\* isValidCivilDate: what Date.UTC does not carry over into another month.
ValidDate(b) == b.m \in 1..12 /\ b.d \in 1..DaysIn(b.y, b.m)

\* a comes after b.
After(a, b) ==
  \/ a.y > b.y
  \/ a.y = b.y /\ (a.m > b.m \/ (a.m = b.m /\ a.d > b.d))

\* ageInYears compares month and day.
AgeInYears(b, today) ==
  today.y - b.y - IF today.m < b.m \/ (today.m = b.m /\ today.d < b.d) THEN 1 ELSE 0

\* assertAdultBirthDate.
Adult(b, today) ==
  /\ ValidDate(b) /\ ~After(b, today)
  /\ today.y - b.y <= 120
  /\ AgeInYears(b, today) >= Majority

\* The definition it is checked against: the birthdays that have come.  Who is
\* born on February 29 has theirs, in other years, on March 1.
Birthdays(b, today) == {y \in (b.y + 1)..today.y : ~After([b EXCEPT !.y = y], today)}
=============================================================================
