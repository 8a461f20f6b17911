------------------------------ MODULE EventLog ------------------------------
(***************************************************************************)
(* The event log as it is written and listed (store/event_store.go).       *)
(* AppendEventJSON stamps an event with time.Now() in the format           *)
(* RFC3339Nano, which drops the trailing zeros of the fraction and the     *)
(* whole fraction when it is zero; ListEventsByStation, which recovery     *)
(* replays, orders the events by that text and then by id.                 *)
(*                                                                         *)
(* Abstractions: date and time of day have a fixed width and are one       *)
(* number, the seconds; the fraction has Width digits of base Base, nine   *)
(* decimal ones in the code; the zone is its first character, which is "Z" *)
(* for a server that runs in UTC.  One station: the query selects one.     *)
(***************************************************************************)
EXTENDS Naturals, Sequences

CONSTANTS
    Base, Width, \* the digits of a fraction; Base > 1 and Width > 0
    Zone,        \* "+", "-" or "Z"
    MaxTime,     \* bound: the last instant
    MaxEvents    \* bound: events in the log

VARIABLES
    now, \* the wall clock, in units of its resolution
    log  \* log[id]: the instant at which the event was stamped

vars == <<now, log>>

(* Characters by their ASCII codes, as far as their order goes.             *)
Plus   == 0
Minus  == 1
Point  == 2
Digit(d) == 3 + d
Letter == 3 + Base

ZoneChar == CASE Zone = "+" -> Plus [] Zone = "-" -> Minus [] Zone = "Z" -> Letter

FractionDigit(t, i) == (t \div Base ^ (Width - i)) % Base

(* The digits that are printed: up to the last one that is not zero.        *)
Printed(t) ==
    {i \in 1..Width : \E j \in i..Width : FractionDigit(t, j) # 0}

(* Printed is an interval that starts at 1.                                 *)
Fraction(t) ==
    LET n == CHOOSE n \in 0..Width : Printed(t) = 1..n
    IN  [i \in 1..n |-> Digit(FractionDigit(t, i))]

Text(t) ==
    <<t \div Base ^ Width>>
        \o (IF Printed(t) = {} THEN <<>> ELSE <<Point>> \o Fraction(t))
        \o <<ZoneChar>>

(* The order of SQLite's BINARY collation: a prefix comes first.            *)
Precedes(a, b) ==
    \E k \in 1..Len(b) :
        /\ \A i \in 1..(k - 1) : i <= Len(a) /\ a[i] = b[i]
        /\ k > Len(a) \/ a[k] < b[k]

ListedBefore(i, j) ==
    \/ Precedes(Text(log[i]), Text(log[j]))
    \/ Text(log[i]) = Text(log[j]) /\ i < j

Init == now = 0 /\ log = <<>>

AppendEvent ==
    /\ Len(log) < MaxEvents
    /\ log' = Append(log, now)
    /\ UNCHANGED now

Tick ==
    /\ now < MaxTime
    /\ now' = now + 1
    /\ UNCHANGED log

Next == AppendEvent \/ Tick

Spec == Init /\ [][Next]_vars

-----------------------------------------------------------------------------
(* internal/store/event_store.go:43: the events are loaded in timestamp     *)
(* order.  In a zone written as Z a stamp whose fraction ends in zeros is   *)
(* listed after later ones that print more digits.                          *)
ListedInTimeOrder ==
    \A i, j \in 1..Len(log) : log[i] < log[j] => ListedBefore(i, j)
=============================================================================
