----------------------------- MODULE MCEncoder -----------------------------
(***************************************************************************)
(* The encoder with a few frames, failures and bitrates, and a receiver of *)
(* its stream; or, in other behaviours, a video processor of its own.      *)
(***************************************************************************)
EXTENDS Encoder

CONSTANTS
    Uses,     \* what the program is: some of "encode" and "process"
    Attempts, \* bounds the pictures put together
    Failures, \* bounds the calls that fail
    Blits     \* bounds the blits

ASSUME MCEncoderAssumption == Uses \subseteq {"encode", "process"} /\ {Attempts, Failures, Blits} \subseteq Nat

\* frame_num has a bit at least: with none, two order counts would be one.
ASSUME ReceiverAssumption == Limit > 1

VARIABLES
    use,    \* which one it is
    failures \* how many calls failed

mcvars == <<vars, use, failures>>

MCInit ==
    /\ Init
    /\ use \in Uses
    /\ use = "process" => codec = "H264" /\ \A rate \in Rates \ {0} : bitrate <= rate
    /\ failures = 0

Failure(failed) == IF failed = "none" THEN 0 ELSE 1

\* Every way a call can go that leaves the bounds respected.
Encode ==
    /\ use = "encode"
    /\ attempts < Attempts
    /\ \E keyframe \in BOOLEAN, failed \in EncodeFailures \cup {"none"} :
          /\ failures' = failures + Failure(failed)
          /\ EncodeFrame(keyframe, failed)

Convert ==
    /\ use = "encode"
    /\ attempts < Attempts
    /\ blits < Blits
    /\ \E keyframe \in BOOLEAN, failed \in EncodeFailures \cup {"none"},
          blit \in ConvertFailures \cup {"none"} :
          /\ failures' = failures + (IF blit = "none" THEN Failure(failed) ELSE 1)
          /\ ConvertFrame(keyframe, blit, failed)

Configure ==
    /\ use = "encode"
    /\ attempts < Attempts
    /\ \E rate \in Rates : SetBitrate(rate)
    /\ UNCHANGED failures

Process ==
    /\ use = "process"
    /\ VppNext
    /\ blits' <= Blits
    /\ UNCHANGED <<encoderVars, failures>>

MCNext ==
    /\ Encode \/ Convert \/ Configure \/ Process
    /\ failures' <= Failures
    /\ UNCHANGED use

MCSpec == MCInit /\ [][MCNext]_mcvars

-----------------------------------------------------------------------------
(* The receiver *)

\* The order count with the low bits lsb that is nearest to the one before it.
Nearest(before, lsb, max) ==
    LET low == before % max
        msb == before - low
    IN  CASE lsb < low /\ 2 * (low - lsb) >= max -> msb + max + lsb
          [] lsb > low /\ 2 * (lsb - low) > max  -> (msb - max) + lsb
          [] OTHER -> msb + lsb

\* The order counts a decoder derives (H.264 8.2.1.1, H.265 8.3.1): of each
\* picture of a sequence, from the low bits and the one before.
Derived(pictures, max) ==
    LET poc[n \in DOMAIN pictures] ==
            IF pictures[n].idr THEN 0 ELSE Nearest(poc[n - 1], pictures[n].lsb, max)
    IN  poc

\* The receiver derives the order counts the encoder gave the driver, also
\* when the low bits wrapped within a group of pictures.
OrderCountsArrive ==
    StreamContinues =>
        LET poc == Derived(returned, IF codec = "H264" THEN 2 * Limit ELSE PocLsb)
        IN  \A n \in DOMAIN returned : poc[n] = Poc(returned[n])

Sizes2 == {"small", "large"}
=============================================================================
