------------------------------ MODULE SeatPool ------------------------------
(***************************************************************************)
(* What the device table of the licence server promises, without requests, *)
(* leases or time: a device code is bound once, to one licence, while that *)
(* licence has a free seat; it keeps that owner for ever; it may lose its  *)
(* seat, and only an administrator gives a seat back.                      *)
(***************************************************************************)
EXTENDS Integers, FiniteSets

CONSTANTS License,      \* licences
          DeviceCode,   \* device codes sent by clients
          None,         \* "no owner yet"
          Capacity      \* seats per licence

VARIABLES owner,        \* the licence a device code was bound to, or None
          seated,       \* the device codes holding a seat
          granted       \* seats an administrator gave back, per licence

poolVars == <<owner, seated, granted>>

Seats(l) == {d \in seated : owner[d] = l}

PoolInit ==
    /\ owner = [d \in DeviceCode |-> None]
    /\ seated = {}
    /\ granted = [l \in License |-> 0]

\* A new device code takes a free seat.
Bind(l, d) ==
    /\ owner[d] = None
    /\ Cardinality(Seats(l)) < Capacity + granted[l]
    /\ owner' = [owner EXCEPT ![d] = l]
    /\ seated' = seated \union {d}
    /\ UNCHANGED granted

\* A device leaves, is kicked, removed or banned.
Release(d) ==
    /\ d \in seated
    /\ seated' = seated \ {d}
    /\ UNCHANGED <<owner, granted>>

\* An administrator sets a removed or banned device back to active, whatever
\* the number of seats in use.
Restore(d) ==
    /\ owner[d] # None
    /\ d \notin seated
    /\ seated' = seated \union {d}
    /\ granted' = [granted EXCEPT ![owner[d]] = @ + 1]
    /\ UNCHANGED owner

PoolNext ==
    \E d \in DeviceCode :
        \/ \E l \in License : Bind(l, d)
        \/ Release(d)
        \/ Restore(d)

PoolSpec == PoolInit /\ [][PoolNext]_poolVars
=============================================================================
