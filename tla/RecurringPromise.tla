-------------------------- MODULE RecurringPromise --------------------------
(***************************************************************************)
(* What a recurring rule promises its user, whatever code carries it out   *)
(* and however often the application crashes: the date of a rule moves on  *)
(* only against a booking.  booked is what the user sees in the list of    *)
(* transactions; credit counts the bookings of a rule that no move of its  *)
(* date has used up yet.  A move takes one, and only a rule whose category *)
(* or account is gone may move for nothing.                                *)
(***************************************************************************)
EXTENDS Integers

CONSTANTS Rules, Dates

VARIABLES
    rules,    \* the rules that exist
    linked,   \* the rules whose category and account exist
    next,     \* the date of a rule's next booking
    booked,   \* booked[r][t]: bookings of a rule while its date was t
    credit    \* bookings that no move has used up

vars == <<rules, linked, next, booked, credit>>

NoBookings == [t \in Dates |-> 0]

Init ==
    /\ rules = {} /\ linked = {}
    /\ next = [r \in Rules |-> 0]
    /\ booked = [r \in Rules |-> NoBookings]
    /\ credit = [r \in Rules |-> 0]

\* What the bookings and the moves of one step leave of credit k.
Settle(k, isBooked, isMoved) ==
    LET funds == IF isBooked THEN k + 1 ELSE k
    IN  IF isMoved /\ funds > 0 THEN funds - 1 ELSE funds

\* The history after the rules of a set were booked.
Booked(books) ==
    [r \in Rules |-> IF r \in books THEN [booked[r] EXCEPT ![next[r]] = @ + 1]
                    ELSE booked[r]]

\* One transaction of the store: it books some rules and moves some dates.
Transact(books, moves) ==
    /\ \A r \in moves : r \in books \/ credit[r] > 0 \/ r \notin linked
    /\ booked' = Booked(books)
    /\ credit' = [r \in Rules |-> Settle(credit[r], r \in books, r \in moves)]
    /\ next' \in [Rules -> Dates]
    /\ \A r \in Rules \ moves : next'[r] = next[r]
    /\ UNCHANGED <<rules, linked>>

Create(r, date) ==
    /\ r \notin rules
    /\ rules' = rules \cup {r}
    /\ linked' \in {linked, linked \cup {r}}
    /\ next' = [next EXCEPT ![r] = date]
    /\ UNCHANGED <<booked, credit>>

Remove(r) ==
    /\ r \in rules
    /\ rules' = rules \ {r} /\ linked' = linked \ {r}
    /\ next' = [next EXCEPT ![r] = 0]
    /\ booked' = [booked EXCEPT ![r] = NoBookings]
    /\ credit' = [credit EXCEPT ![r] = 0]

Unlink(r) == linked' = linked \ {r} /\ UNCHANGED <<rules, next, booked, credit>>

Next ==
    \/ \E books, moves \in SUBSET Rules : Transact(books, moves)
    \/ \E r \in Rules : (\E date \in Dates : Create(r, date)) \/ Remove(r) \/ Unlink(r)

Spec == Init /\ [][Next]_vars
=============================================================================
