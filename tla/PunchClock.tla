---------------------------- MODULE PunchClock ----------------------------
(***************************************************************************)
(* What the time clock promises: an employee is either clocked in, on one  *)
(* time entry, or clocked out; an entry is opened once; a company has one  *)
(* current QR code, and a code that was replaced never becomes current     *)
(* again.                                                                  *)
(***************************************************************************)
CONSTANTS Company, Employee, Code, Entry, Null

VARIABLES
    open,       \* the entry an employee is clocked in on, or Null
    used,       \* entries that have been opened
    current,    \* the code a company shows, or Null
    issued      \* codes that have been shown

pvars == <<open, used, current, issued>>

ClockInit ==
    /\ open = [e \in Employee |-> Null]
    /\ used = {}
    /\ current = [c \in Company |-> Null]
    /\ issued = {}

ClockIn(e) ==
    /\ open[e] = Null
    /\ \E n \in Entry \ used : /\ open' = [open EXCEPT ![e] = n]
                               /\ used' = used \cup {n}
    /\ UNCHANGED <<current, issued>>

\* Closed by a scan or an admin, or deleted.
ClockOut(e) ==
    /\ open[e] # Null
    /\ open' = [open EXCEPT ![e] = Null]
    /\ UNCHANGED <<used, current, issued>>

Issue(c) ==
    /\ \E t \in Code \ issued : /\ current' = [current EXCEPT ![c] = t]
                                /\ issued' = issued \cup {t}
    /\ UNCHANGED <<open, used>>

ClockNext ==
    \/ \E e \in Employee : ClockIn(e) \/ ClockOut(e)
    \/ \E c \in Company : Issue(c)

ClockSpec == ClockInit /\ [][ClockNext]_pvars
============================================================================
