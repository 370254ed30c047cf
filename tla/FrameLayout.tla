----------------------------- MODULE FrameLayout -----------------------------
(***************************************************************************)
(* Where the bytes of an NV12 frame lie, seen by everybody who touches it: *)
(* the driver's format (V4L2Camera::ConfigureFormat), the frame view       *)
(* (BuildFrameView), the broker's check (ValidateCaptureFrameView), RGA    *)
(* (RgaLetterboxPreprocessor::Validate), the CPU path (ResolveNv12Planes)  *)
(* and MPP (DeriveVerticalStride, DeriveNv12MppLayout).                    *)
(*                                                                         *)
(* One plane, as RunRuntime demands. A reader is described by the place of *)
(* its first chroma byte and the end of what it reads, both counted from   *)
(* the start of the allocation.                                            *)
(***************************************************************************)
EXTENDS Naturals, FiniteSets, FiniteSetsExt

CONSTANTS Widths, Heights, Strides,  \* bounds: what the driver may answer to S_FMT
          Sizes,                     \* bound: sizeimage, buffer length, bytesused
          Offsets,                   \* bound: data_offset of a plane
          VerticalStrides            \* bound: --vertical-stride, 0 when not given

ASSUME LayoutAssumption ==
    /\ Widths \cup Heights \cup Strides \subseteq Nat
    /\ Sizes \cup Offsets \cup VerticalStrides \subseteq Nat
    /\ \E largest \in Sizes : \A size \in Sizes : size <= largest

VARIABLES format,                    \* CameraFormat, and what the command line asks
          frame,                     \* the CaptureFrameView
          reads                      \* what each reader of the frame touched

layoutVars == <<format, frame, reads>>

NoFormat == [width |-> 0, height |-> 0, stride |-> 0, sizeImage |-> 0,
             multiplanar |-> FALSE, verticalStride |-> 0]
NoFrame == [length |-> 0, offset |-> 0, used |-> 0]

LayoutInit == format = NoFormat /\ frame = NoFrame /\ reads = [r \in {} |-> 0]

\* DeriveVerticalStride: the option, or what sizeimage says; it throws when
\* the stride is unknown or the rows do not come out even.
DerivedRows(f, option) ==
    IF option > 0 THEN {option}
    ELSE {rows \in 1..Max(Sizes) : f.stride > 0 /\ 2 * f.sizeImage = 3 * f.stride * rows}

\* Open and the construction of the encoder, which refuses a stride below the
\* width and rows below the height.
Configure ==
    /\ format = NoFormat
    /\ \E w \in Widths, h \in Heights, s \in Strides, size \in Sizes,
          m \in BOOLEAN, option \in VerticalStrides :
        \E rows \in DerivedRows([stride |-> s, sizeImage |-> size], option) :
            /\ s >= w /\ rows >= h
            /\ format' = [width |-> w, height |-> h, stride |-> s, sizeImage |-> size,
                          multiplanar |-> m, verticalStride |-> rows]
    /\ UNCHANGED <<frame, reads>>

\* BuildFrameView: what the driver reports, cut off at the mapping's length.
BuildFrameView(length, offset, used) ==
    LET start == IF format.multiplanar THEN Min({offset, length}) ELSE 0
        bytes == Min({used, length})
    IN  [length |-> length, offset |-> start,
         used |-> IF bytes > start THEN bytes - start ELSE 0]

\* ValidateCaptureFrameView, which the broker's Publish demands.
Publishable(f) == f.length > 0 /\ f.offset <= f.length /\ f.used <= f.length - f.offset

Capture ==
    /\ format # NoFormat /\ frame = NoFrame
    /\ \E length, used \in Sizes, offset \in Offsets :
        LET f == BuildFrameView(length, offset, used)
        IN  Publishable(f) /\ frame' = f
    /\ UNCHANGED <<format, reads>>

-----------------------------------------------------------------------------
(* The readers.                                                            *)

\* A plausible bug: the chroma rows are forgotten.
SourceRequiredLuma == format.stride * format.height

\* What Validate wants the allocation to hold before RGA is started.
SourceRequired == (format.stride * format.height * 3) \div 2

RgaAccepts ==
    /\ format.width % 2 = 0 /\ format.height % 2 = 0
    /\ frame.offset = 0
    /\ frame.length >= SourceRequired

\* wrapbuffer_handle gets the frame's height as its height stride.
RgaReads == [chroma |-> format.stride * format.height,
             end |-> format.stride * format.height + format.stride * (format.height \div 2)]

CpuAccepts ==
    /\ format.width % 2 = 0 /\ format.height % 2 = 0
    /\ format.stride * format.height + format.stride * (format.height \div 2)
        <= frame.length - frame.offset

\* ResolveNv12Planes starts at mapped_address, which includes the offset.
CpuReads == [chroma |-> frame.offset + RgaReads.chroma,
             end |-> frame.offset + RgaReads.end]

\* DeriveNv12MppLayout.
MppMinimum == (format.stride * format.verticalStride * 3) \div 2

MppAccepts ==
    /\ frame.offset = 0 /\ frame.length > 0
    /\ format.verticalStride >= format.height
    /\ MppMinimum <= frame.length /\ MppMinimum <= format.sizeImage

MppReads == [chroma |-> format.stride * format.verticalStride, end |-> MppMinimum]

Touch(reader, accepts, region) ==
    /\ frame # NoFrame /\ reader \notin DOMAIN reads
    /\ accepts
    /\ reads' = [r \in DOMAIN reads \cup {reader} |->
                    IF r = reader THEN region ELSE reads[r]]
    /\ UNCHANGED <<format, frame>>

RgaProcess == Touch("rga", RgaAccepts, RgaReads)
CpuProcess == Touch("cpu", CpuAccepts, CpuReads)
MppRead == Touch("mpp", MppAccepts, MppReads)

LayoutNext == Configure \/ Capture \/ RgaProcess \/ CpuProcess \/ MppRead

LayoutSpec == LayoutInit /\ [][LayoutNext]_layoutVars

-----------------------------------------------------------------------------
(* Properties.                                                             *)

\* No reader touches a byte behind the end of the buffer, whatever stride,
\* padding, offset and length the driver combines: each of three checks,
\* written separately, covers what its reader really addresses.
ReadsStayInside == \A r \in DOMAIN reads : reads[r].end <= frame.length

\* When sizeimage holds exactly the visible rows, all readers find the chroma
\* plane in the same place. (With padded rows they do not: RGA and the CPU
\* path use the height, MPP uses the rows that sizeimage implies.)
ReadersAgree ==
    2 * format.sizeImage = 3 * format.stride * format.height =>
        \A r \in DOMAIN reads :
            reads[r].chroma = frame.offset + format.stride * format.height

FrameLayoutKept == ReadsStayInside /\ ReadersAgree
=============================================================================
