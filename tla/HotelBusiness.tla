---------------------------- MODULE HotelBusiness ----------------------------
(***************************************************************************)
(* hotelbusiness.ComputeLoad (src/hotelbusiness/hotels.go): from the       *)
(* guests' check-in and check-out days, the load of the hotel as a list of *)
(* (start day, guest count) entries, one per change of the count, from the *)
(* first check-in to the last check-out.  The call is one step; the input  *)
(* is any list of at most MaxGuests guests with days in Days.              *)
(***************************************************************************)
EXTENDS Integers, Sequences, FiniteSets

SX == INSTANCE SequencesExt

CONSTANTS
    Days,        \* the days a guest may check in or out
    MaxGuests    \* the longest guest list

Guest == {g \in [in : Days, out : Days] : g.in <= g.out}

VARIABLES
    guests,      \* the argument of ComputeLoad
    totalLoads,  \* what it returned
    hotelPc      \* "call" or "done"

vars == <<guests, totalLoads, hotelPc>>

TypeOK ==
    /\ guests \in SX!BoundedSeq(Guest, MaxGuests)
    /\ totalLoads \in Seq([StartDate : Int, GuestCount : Int])
    /\ hotelPc \in {"call", "done"}

Init ==
    /\ guests \in SX!BoundedSeq(Guest, MaxGuests)
    /\ totalLoads = <<>> /\ hotelPc = "call"

-----------------------------------------------------------------------------
\* Mutant: the check-out is counted on the day after.
addArrivalAndDepartureDaysLate(gs) ==
    LET named == {gs[i].in : i \in DOMAIN gs} \cup {gs[i].out + 1 : i \in DOMAIN gs}
        Net(d) == Cardinality({i \in DOMAIN gs : gs[i].in = d})
                    - Cardinality({i \in DOMAIN gs : gs[i].out + 1 = d})
    IN [d \in named |-> Net(d)]

\* addArrivalAndDepartureDays: loads[d] is +1 for every check-in on d and
\* -1 for every check-out on d; the days of the map are those named.
addArrivalAndDepartureDays(gs) ==
    LET named == {gs[i].in : i \in DOMAIN gs} \cup {gs[i].out : i \in DOMAIN gs}
        Net(d) == Cardinality({i \in DOMAIN gs : gs[i].in = d})
                    - Cardinality({i \in DOMAIN gs : gs[i].out = d})
    IN [d \in named |-> Net(d)]

\* getFullRangeOfDays: minDay starts at the first check-in, maxDay at -1.
getFullRangeOfDays(gs) ==
    <<SX!Min({gs[i].in : i \in DOMAIN gs}),
      SX!Max({-1} \cup {gs[i].out : i \in DOMAIN gs})>>

\* getExistingCount: the day's entry, or 0.
getExistingCount(loads, d) == IF d \in DOMAIN loads THEN loads[d] ELSE 0

\* getCountOfGuestsOnPreviousDay: the count of the last entry, -1 if none.
getCountOfGuestsOnPreviousDay(tl) == IF tl = <<>> THEN -1 ELSE tl[Len(tl)].GuestCount

\* addTotalReportForLoad: a new entry on the first day and on every change.
addTotalReportForLoad(tl, count, prev, d) ==
    IF tl = <<>> \/ count # prev
    THEN Append(tl, [StartDate |-> d, GuestCount |-> count])
    ELSE tl

\* countTotalLoads: the running count from minDay to maxDay.
RECURSIVE countTotalLoads(_, _, _, _, _)
countTotalLoads(d, maxDay, loads, count, tl) ==
    IF d > maxDay THEN tl
    ELSE LET c == count + getExistingCount(loads, d)
         IN countTotalLoads(d + 1, maxDay, loads, c,
                            addTotalReportForLoad(tl, c, getCountOfGuestsOnPreviousDay(tl), d))

\* ComputeLoad(guests).
ComputeLoad ==
    /\ hotelPc = "call"
    /\ totalLoads' =
         IF guests = <<>> THEN <<>>
         ELSE LET range == getFullRangeOfDays(guests)
              IN countTotalLoads(range[1], range[2], addArrivalAndDepartureDays(guests), 0, <<>>)
    /\ hotelPc' = "done"
    /\ UNCHANGED guests

Terminated == hotelPc = "done" /\ UNCHANGED vars

Next == ComputeLoad \/ Terminated

Spec == Init /\ [][Next]_vars

-----------------------------------------------------------------------------
\* The guests in the hotel on day d: checked in on or before d and not yet
\* checked out.
InHotel(d) == Cardinality({i \in DOMAIN guests : guests[i].in <= d /\ d < guests[i].out})

\* ComputeLoad's result is the hotel's occupancy, run-length encoded: from
\* the first check-in to the last check-out, an entry for the first day
\* and for every day whose count differs from the day before, with that
\* count.
LoadIsOccupancy ==
    hotelPc = "done" =>
        LET lo == SX!Min({guests[i].in : i \in DOMAIN guests})
            hi == SX!Max({guests[i].out : i \in DOMAIN guests})
            starts == {d \in lo..hi : d = lo \/ InHotel(d) # InHotel(d - 1)}
        IN IF guests = <<>> THEN totalLoads = <<>>
           ELSE totalLoads = [k \in 1..Cardinality(starts) |->
                                LET d == CHOOSE x \in starts :
                                           Cardinality({y \in starts : y < x}) = k - 1
                                IN [StartDate |-> d, GuestCount |-> InHotel(d)]]
====
