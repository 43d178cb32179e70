---------------------------- MODULE TimeTranslation ----------------------------
(***************************************************************************)
(* The 64-bit arithmetic between the uptime of a boot and UTC              *)
(* (translate_timestamp, make_utc_boot_cursor and calculate_entry_utc of   *)
(* on9rstore_read.cpp).  An epoch is a stretch of one boot's uptime that   *)
(* one time anchor translates: [boot, first, last, mono, utc], where the   *)
(* anchor says that uptime mono was UTC utc.                               *)
(***************************************************************************)
EXTENDS Integers

CONSTANT MaxTime   \* UINT64_MAX
ASSUME MaxTimeAssumption == MaxTime \in Nat

Times == 0 .. MaxTime

\* translate_timestamp: no intermediate value leaves 0 .. MaxTime.
TranslationResult(value, from, to) ==
    IF value >= from
    THEN IF value - from > MaxTime - to THEN "above_max" ELSE "in_range"
    ELSE IF from - value > to THEN "below_zero" ELSE "in_range"

\* What *translated_out holds afterwards: its initial 0 unless in range.
Translated(value, from, to) ==
    IF TranslationResult(value, from, to) # "in_range" THEN 0
    ELSE IF value >= from THEN to + (value - from) ELSE to - (from - value)

\* calculate_entry_utc.
HasUtc(epoch, uptime) == TranslationResult(uptime, epoch.mono, epoch.utc) = "in_range"
Utc(epoch, uptime) == Translated(uptime, epoch.mono, epoch.utc)

\* make_utc_boot_cursor: the uptimes of the epoch between two UTC times.
FirstUptime(epoch, first) ==
    LET translated == Translated(first, epoch.utc, epoch.mono) IN
    IF \/ TranslationResult(first, epoch.utc, epoch.mono) = "below_zero"
       \/ translated < epoch.first
    THEN epoch.first ELSE translated

LastUptime(epoch, last) ==
    LET translated == Translated(last, epoch.utc, epoch.mono) IN
    IF \/ TranslationResult(last, epoch.utc, epoch.mono) = "above_max"
       \/ translated > epoch.last
    THEN epoch.last ELSE translated

Overlaps(epoch, first, last) ==
    /\ TranslationResult(first, epoch.utc, epoch.mono) # "above_max"
    /\ TranslationResult(last, epoch.utc, epoch.mono) # "below_zero"
    /\ FirstUptime(epoch, first) <= LastUptime(epoch, last)
=============================================================================
