-------------------------- MODULE MultipartRanges --------------------------
(* How the data mover cuts an object into the parts of a multipart upload
   (CopyLocationTask, and MultipleBackendTask with the same code): the size of a
   part, then the byte ranges.  The literals of the code are constants, so that
   TLC can go through every length around each of them.                        *)
EXTENDS Integers, Sequences

CONSTANTS
    DefaultPartSize,    \* 16 MB
    LargestPartSize,    \* 512 MB, given up only beyond HardPartLimit
    SoftPartLimit,      \* 1000 parts
    HardPartLimit,      \* 10000 parts
    GCPMaxParts,        \* MPU_GCP_MAX_PARTS
    MaxLength           \* lengths checked (bound)

ASSUME RangesAssumption ==
    /\ DefaultPartSize \in Nat \ {0} /\ LargestPartSize \in Nat \ {0}
    /\ SoftPartLimit \in Nat \ {0} /\ HardPartLimit \in Nat \ {0}
    /\ GCPMaxParts \in Nat \ {0} /\ MaxLength \in Nat

(* Doubles the part size while the parts are too many and the part size is
   below LargestPartSize.                                                      *)
GrowToSoftLimit(contentLen) ==
    LET grow[size \in Nat] ==
            IF contentLen > SoftPartLimit * size /\ size < LargestPartSize
            THEN grow[2 * size] ELSE size
    IN  grow[DefaultPartSize]

GrowToHardLimit(contentLen, from) ==
    LET grow[size \in Nat] ==
            IF contentLen > HardPartLimit * size THEN grow[2 * size] ELSE size
    IN  grow[from]

GetRangeSize(contentLen) ==
    IF contentLen <= DefaultPartSize THEN contentLen
    ELSE GrowToHardLimit(contentLen, GrowToSoftLimit(contentLen))

(* The least power of two that is not below n. *)
PowerOfTwoAbove(n) ==
    LET pow[p \in Nat] == IF p < n THEN pow[2 * p] ELSE p IN pow[1]

GetGCPRangeSize(contentLen) ==
    LET rangeSize == GetRangeSize(contentLen) IN
    IF contentLen > GCPMaxParts * rangeSize
    THEN (PowerOfTwoAbove(contentLen) + GCPMaxParts - 1) \div GCPMaxParts
    ELSE rangeSize

NoRange == [start |-> 0, end |-> -1]

(* The ranges of the parts, in order; an empty object has one part that has no
   range.                                                                      *)
GetRanges(contentLen, isGCP) ==
    IF contentLen = 0 THEN <<NoRange>>
    ELSE LET size == IF isGCP THEN GetGCPRangeSize(contentLen) ELSE GetRangeSize(contentLen)
             from[start \in Nat] ==
                IF start + size - 1 < contentLen - 1
                THEN <<[start |-> start, end |-> start + size - 1]>> \o from[start + size]
                ELSE <<[start |-> start, end |-> contentLen - 1]>>
         IN  from[0]

(* Ranges that tile an object: each begins where the one before ends, none is
   empty, the first begins at 0 and the last ends with the object.             *)
Tile(ranges, contentLen) ==
    /\ ranges[1].start = 0 /\ ranges[Len(ranges)].end = contentLen - 1
    /\ \A i \in 1 .. Len(ranges) : ranges[i].start <= ranges[i].end
    /\ \A i \in 1 .. Len(ranges) - 1 : ranges[i + 1].start = ranges[i].end + 1

(* The parts of an upload are the object, each byte once, whatever the length,
   and they are not more than the backend takes (CopyLocationTask._getRanges). *)
RangesTile ==
    \A len \in 1 .. MaxLength, isGCP \in BOOLEAN :
        LET ranges == GetRanges(len, isGCP) IN
        /\ Tile(ranges, len)
        /\ Len(ranges) <= IF isGCP THEN GCPMaxParts ELSE HardPartLimit
=============================================================================
