----------------------------- MODULE MsfAddress -----------------------------
(***************************************************************************)
(* Sector addresses: lib/driver/sector.c and the BCD bytes of              *)
(* lib/driver/util.c.  An LSN counts sectors from the start of the first   *)
(* track, an LBA from the pre-gap before it, and an MSF is the LBA in      *)
(* minutes, seconds and frames, each a BCD byte.  Every call is one step.  *)
(***************************************************************************)
EXTENDS Integers, Sequences

CONSTANTS
  Lsns,   \* the LSNs that are converted
  Texts   \* the strings that are parsed: what stands between their colons

(* A string is the sequence of its fields, a field a sequence of digits    *)
(* and, for any other character, NoDigit.                                  *)
NoDigit == 10
ASSUME MsfAddressAssumption ==
  /\ Lsns \subseteq Int
  /\ \A t \in Texts : t \in Seq(Seq(0 .. NoDigit)) /\ Len(t) > 0

VARIABLE answer   \* the last call: [op, arg, value]

PregapSectors == 150
FramesPerSec == 75
FramesPerMin == 4500
MaxLsn == 450150       \* CDIO_CD_MAX_LSN
MinLsn == -450150      \* CDIO_CD_MIN_LSN
InvalidLba == -45301   \* CDIO_INVALID_LBA and CDIO_INVALID_LSN

-----------------------------------------------------------------------------
(* cdio_to_bcd8 and cdio_from_bcd8, of bytes.                              *)
ToBcd8(n) == (n \div 10) * 16 + (n % 10)
HexByte(p) == p                                       \* mutant of FromBcd8
FromBcd8(p) == 10 * (p \div 16) + (p % 16)

LsnToLba(lsn) == IF lsn = InvalidLba THEN InvalidLba ELSE lsn + PregapSectors
LbaToLsn(lba) == IF lba = InvalidLba THEN InvalidLba ELSE lba - PregapSectors

(* cdio_lsn_to_msf: from the pre-gap on, frames are counted from its       *)
(* start; sectors before it have addresses that count up to the end.       *)
Origin(lsn) == IF lsn >= -PregapSectors THEN PregapSectors ELSE MaxLsn
Minutes(n) == n \div FramesPerMin
Seconds(n) == (n % FramesPerMin) \div FramesPerSec
Frames(n) == n % FramesPerSec
Truncated(m) == IF m > 99 THEN 99 ELSE m

LsnToMsf(lsn) ==
  LET n == lsn + Origin(lsn)
  IN [m |-> ToBcd8(Truncated(Minutes(n))), s |-> ToBcd8(Seconds(n)), f |-> ToBcd8(Frames(n))]

(* cdio_msf_to_lba and cdio_msf_to_lsn.                                    *)
MsfToLba(msf) ==
  (FromBcd8(msf.m) * 60 + FromBcd8(msf.s)) * FramesPerSec + FromBcd8(msf.f)
MsfToLsn(msf) == LbaToLsn(MsfToLba(msf))

-----------------------------------------------------------------------------
(* cdio_mmssff_to_lba: a number of minutes of any length, one or two       *)
(* digits of seconds and of frames.  "0" alone is address 0.  A frame      *)
(* field that does not begin with a digit gives -1.                        *)
Digits(field) == field # << >> /\ \A k \in DOMAIN field : field[k] # NoDigit
Number[field \in Seq(0 .. 9)] ==
  IF field = << >> THEN 0
  ELSE 10 * Number[SubSeq(field, 1, Len(field) - 1)] + field[Len(field)]
MinutesOk(t) == Len(t) > 1 /\ Digits(t[1])
SecondsOk(t) == Len(t) > 2 /\ Digits(t[2]) /\ Len(t[2]) <= 2 /\ Number[t[2]] < 60
NoFrames(t) == t[3] = << >> \/ t[3][1] = NoDigit
FramesOk(t) == Len(t) = 3 /\ Digits(t[3]) /\ Len(t[3]) <= 2 /\ Number[t[3]] < FramesPerSec

MmssffToLba(t) ==
  CASE t = << <<0>> >> -> 0
    [] t # << <<0>> >> /\ MinutesOk(t) /\ SecondsOk(t) /\ NoFrames(t) -> -1
    [] MinutesOk(t) /\ SecondsOk(t) /\ FramesOk(t) ->
         (Number[t[1]] * 60 + Number[t[2]]) * FramesPerSec + Number[t[3]]
    [] OTHER -> InvalidLba

(* cdio_msf_to_str, "%2.2x:%2.2x:%2.2x".                                   *)
InDecimal(msf) ==                                           \* mutant of MsfToStr
  <<<<msf.m \div 10, msf.m % 10>>, <<msf.s \div 10, msf.s % 10>>, <<msf.f \div 10, msf.f % 10>>>>
MsfToStr(msf) ==
  <<<<msf.m \div 16, msf.m % 16>>, <<msf.s \div 16, msf.s % 16>>, <<msf.f \div 16, msf.f % 16>>>>

-----------------------------------------------------------------------------
Answer(op, arg, value) == [op |-> op, arg |-> arg, value |-> value]

AddressInit == answer = Answer("none", 0, 0)

ConvertLsn(lsn) == answer' = Answer("lsn_to_msf", lsn, LsnToMsf(lsn))
ParseText(t) == answer' = Answer("mmssff_to_lba", t, MmssffToLba(t))

AddressNext == (\E lsn \in Lsns : ConvertLsn(lsn)) \/ (\E t \in Texts : ParseText(t))

AddressSpec == AddressInit /\ [][AddressNext]_answer

-----------------------------------------------------------------------------
(* The sectors that an address on a disc of 100 minutes can name.          *)
OnDisc(lsn) == -PregapSectors <= lsn /\ lsn < 100 * FramesPerMin - PregapSectors

(* cdio_msf_to_lsn gives back the LSN that cdio_lsn_to_msf was given.      *)
MsfNamesLsn ==
  (answer.op = "lsn_to_msf" /\ OnDisc(answer.arg)) => MsfToLsn(answer.value) = answer.arg

(* An MSF has BCD bytes of less than 60 seconds and 75 frames, whatever    *)
(* LSN of a CD it stands for.                                              *)
Bcd(p, limit) == p % 16 < 10 /\ p \div 16 < 10 /\ FromBcd8(p) < limit
MsfWellFormed ==
  (answer.op = "lsn_to_msf" /\ answer.arg \in MinLsn .. MaxLsn) =>
    Bcd(answer.value.m, 100) /\ Bcd(answer.value.s, 60) /\ Bcd(answer.value.f, 75)

(* An address that cdio_msf_to_str prints is the one cdio_mmssff_to_lba    *)
(* reads, so that cue sheets can be written and read back; and what the    *)
(* parser accepts has its seconds and frames in range: adding the printed  *)
(* minutes back gives the text's own fields.                               *)
ReadBack ==
  (answer.op = "lsn_to_msf" /\ OnDisc(answer.arg)) =>
    MmssffToLba(MsfToStr(answer.value)) = LsnToLba(answer.arg)

ParsedInRange ==
  (answer.op = "mmssff_to_lba" /\ answer.value >= 0 /\ Len(answer.arg) = 3) =>
    /\ (answer.value \div FramesPerSec) % 60 = Number[answer.arg[2]]
    /\ answer.value % FramesPerSec = Number[answer.arg[3]]

PrintedIsParsed == ReadBack /\ ParsedInRange

=============================================================================
