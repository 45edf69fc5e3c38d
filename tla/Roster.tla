------------------------------ MODULE Roster ------------------------------
(***************************************************************************)
(* What an employee's record promises: a pay rate that is always one whole *)
(* rate, and a schedule that is always one whole schedule, each day of it  *)
(* at the rate that was in force when the schedule was written.            *)
(***************************************************************************)
CONSTANTS Employee, Date, Rate, Null

VARIABLES
    rate,       \* the rate of an employee, or Null
    days        \* the rate of each scheduled day, or Null

rvars == <<rate, days>>

Plan(D, p) == [d \in Date |-> IF d \in D THEN p ELSE Null]

RosterInit ==
    /\ rate = [e \in Employee |-> Null]
    /\ days = [e \in Employee |-> Plan({}, Null)]

Hire(e) ==
    /\ rate[e] = Null
    /\ \E p \in Rate, D \in SUBSET Date :
          /\ rate' = [rate EXCEPT ![e] = p]
          /\ days' = [days EXCEPT ![e] = Plan(D, p)]

Change(e) ==
    /\ rate[e] # Null
    /\ \E p \in Rate :
          /\ rate' = [rate EXCEPT ![e] = p]
          /\ \/ UNCHANGED days
             \/ \E D \in SUBSET Date : days' = [days EXCEPT ![e] = Plan(D, p)]

Leave(e) ==
    /\ rate[e] # Null
    /\ rate' = [rate EXCEPT ![e] = Null]
    /\ days' = [days EXCEPT ![e] = Plan({}, Null)]

RosterNext == \E e \in Employee : Hire(e) \/ Change(e) \/ Leave(e)

RosterSpec == RosterInit /\ [][RosterNext]_rvars
============================================================================
