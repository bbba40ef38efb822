------------------------------- MODULE Time64 -------------------------------
(***************************************************************************)
(* The times of records, yeetbox-server/src/time64.rs: a word of whole     *)
(* seconds and a field of nanoseconds, written by the driver from the      *)
(* clock and turned into the Timestamps of a listing.                      *)
(*                                                                         *)
(* The driver makes times with now() only, so the conversion from a        *)
(* Timestamp, which nothing calls, is left out.  The widths of the program *)
(* are Field = 2^20, Epochs = 2^44, Milli = 1000000, Second = 1000000000.  *)
(***************************************************************************)
EXTENDS Integers

CONSTANTS
    Field,      \* values of the field for the nanoseconds
    Epochs,     \* values of the field for the seconds
    Milli,      \* the modulus of now(), in units of the clock
    Second      \* units of the clock in a second

\* "20 bits can encode just over 1M values."
ASSUME FieldAssumption ==
    /\ Field \in Nat /\ Epochs \in Nat \ {0} /\ Milli \in Nat \ {0} /\ Second \in Nat \ {0}
    /\ Milli <= Field

\* The readings of the clock before the seconds overflow.
Clock == 0 .. Epochs * Second - 1

Word == 0 .. Epochs * Field - 1

TIME64_UNKNOWN_TIME == 0

\* The nanoseconds have a field of their own, so the bitwise or is a sum; bits
\* that are shifted out are lost.
FromParts(secs, ns) == ((secs * Field) % (Epochs * Field)) + ns

\* Time64::now, at a reading of the clock: the seconds, and what is left of the
\* reading below a millisecond.
Now(reading) == FromParts(reading \div Second, reading % Milli)

\* The Timestamp of a listing; an unknown time is left out.
Seconds(time) == time \div Field
Nanos(time)   == time % Field

Known(time) == time # TIME64_UNKNOWN_TIME

Listed(time) ==
    IF Known(time) THEN {[seconds |-> Seconds(time), nanos |-> Nanos(time)]} ELSE {}

-----------------------------------------------------------------------------
\* A Timestamp that a listing shows of a reading is in the second of that
\* reading, and one is shown unless the reading is at the epoch as far as now()
\* can tell.
ListedSecond(reading) ==
    Listed(Now(reading)) =
       IF reading \div Second = 0 /\ reading % Milli = 0
       THEN {}
       ELSE {[seconds |-> reading \div Second, nanos |-> reading % Milli]}

\* Of two readings, as upload takes them for create_time and modify_time, the
\* later one may be listed as the earlier time, but only within a second and
\* by less than a millisecond.
InOrder(reading, later) ==
    reading <= later =>
        \/ Now(reading) <= Now(later)
        \/ /\ Seconds(Now(reading)) = Seconds(Now(later))
           /\ Nanos(Now(reading)) - Nanos(Now(later)) \in 1 .. Milli - 1

TimesInOrder == \A reading, later \in Clock : InOrder(reading, later)

TimesListed == \A reading \in Clock : ListedSecond(reading)

=============================================================================
