--------------------------- MODULE WebcamSnapshot ---------------------------
(***************************************************************************)
(* test/webcam.cpp: startupWebcam, getFramerate, takeSnapshot and shutdown *)
(* in the order main calls them, with every system call that may fail.     *)
(*                                                                         *)
(* The program is sequential; what it shares with the driver is the        *)
(* memory of the mapped buffers.  A buffer in `queued' belongs to the      *)
(* driver, which may write to it at any moment.  Sizes are numbers of      *)
(* pixels; a YUYV picture has two bytes for each.  The driver's side is    *)
(* modelled from the calls the program makes.                              *)
(***************************************************************************)
EXTENDS Integers, Sequences, FiniteSets, FiniteSetsExt

CONSTANTS
  Sizes,        \* picture sizes the driver knows, in pixels
  WishedSize,   \* width * height of main's call
  MaxBuffers,   \* bound: buffers the driver grants
  Samples       \* bytes of Y, U and V of the pixels that are followed

ASSUME SnapshotAssumption ==
  /\ Sizes \subseteq {n \in Nat : n % 2 = 0}  \* YUYV has even widths
  /\ WishedSize \in Nat /\ WishedSize % 2 = 0 /\ MaxBuffers \in Nat
  /\ Samples \subseteq 0 .. 255

Fourcc   == {"YUYV", "MJPEG", "other"}
Formats  == [size : Sizes \cup {WishedSize}, fourcc : Fourcc]
Yuv      == [y : Samples, u : Samples, v : Samples]
nullptr  == "nullptr"
NoFormat == [size |-> 0, fourcc |-> "other"]  \* v4l2_format{}
NoFrame  == -1

VARIABLES
  pc,            \* the call main is about to make
  fd,            \* the device is open
  activeFormat,  \* the driver's format
  fmt,           \* the program's copy of it
  bufs,          \* per buffer: "nullptr", "mapped" or "MAP_FAILED"
  queued,        \* buffers the driver may write to
  streaming,
  held,          \* the buffer takeSnapshot has dequeued, or NoFrame
  picture,       \* what was saved: {}, or a pixel with its bytes
  exitCode,
  \* History:
  adapted        \* VIDIOC_S_FMT succeeded

snapshotVars == <<pc, fd, activeFormat, fmt, bufs, queued, streaming, held,
                  picture, exitCode, adapted>>
driverVars   == <<activeFormat, queued, streaming>>

Init ==
  /\ pc = "open" /\ fd = FALSE
  /\ activeFormat \in [size : Sizes, fourcc : Fourcc]
  /\ fmt = NoFormat
  /\ bufs = <<>> /\ queued = {} /\ streaming = FALSE
  /\ held = NoFrame /\ picture = {} /\ exitCode = NoFrame /\ adapted = FALSE
-----------------------------------------------------------------------------
(***************************************************************************)
(* yuyv_to_rgb.  The factors are multiples of 10^-6.  Rounding down equals *)
(* the cast to int for what is not negative, the rest is clamped to 0.     *)
(***************************************************************************)
clamp(x) == Min({255, Max({0, x})})

\* Mutant: the offset of the chroma bytes is forgotten.
convNotCentred(p) ==
  LET scaled == p.y * 1000000 IN
  [r |-> clamp((scaled + 1402000 * p.v) \div 1000000),
   g |-> clamp((scaled - 344136 * p.u - 714136 * p.v) \div 1000000),
   b |-> clamp((scaled + 1772000 * p.u) \div 1000000)]

conv(p) ==
  LET scaled == p.y * 1000000
      u      == p.u - 128
      v      == p.v - 128 IN
  [r |-> clamp((scaled + 1402000 * v) \div 1000000),
   g |-> clamp((scaled - 344136 * u - 714136 * v) \div 1000000),
   b |-> clamp((scaled + 1772000 * u) \div 1000000)]

\* Bytes read from the buffer: the loop takes two pixels a round.
yuyvBytes(size) == 4 * ((size + 1) \div 2)
-----------------------------------------------------------------------------
goTo(from, to) == pc = from /\ pc' = to

\* startupWebcam returns false and main ends; nothing is released.
startupFails(from) ==
  /\ goTo(from, "exit") /\ exitCode' = 1
  /\ UNCHANGED <<fd, fmt, held, picture, adapted, driverVars>>

openDevice ==
  \/ /\ goTo("open", "G_FMT") /\ fd' = TRUE
     /\ UNCHANGED <<fmt, bufs, held, picture, exitCode, adapted, driverVars>>
  \/ startupFails("open") /\ UNCHANGED bufs

getFormat ==
  \/ /\ goTo("G_FMT", "S_FMT") /\ fmt' = activeFormat
     /\ UNCHANGED <<fd, bufs, held, picture, exitCode, adapted, driverVars>>
  \/ startupFails("G_FMT") /\ UNCHANGED bufs

\* The driver may adapt the wish; if the call fails the program goes on all
\* the same, with the format it wished for.
setFormat ==
  /\ goTo("S_FMT", "REQBUFS")
  /\ \/ /\ activeFormat' \in [size : Sizes, fourcc : Fourcc]
        /\ fmt' = activeFormat' /\ adapted' = TRUE
     \/ /\ fmt' = [fmt EXCEPT !.size = WishedSize]
        /\ UNCHANGED <<activeFormat, adapted>>
  /\ UNCHANGED <<fd, bufs, queued, streaming, held, picture, exitCode>>

\* The driver may grant fewer or more buffers than asked for; main needs two and
\* takes what it gets.
requestBuffers ==
  \/ \E count \in 2 .. MaxBuffers :
       /\ goTo("REQBUFS", "map")
       /\ bufs' = [i \in 1 .. count |-> nullptr]
       /\ UNCHANGED <<fd, fmt, held, picture, exitCode, adapted, driverVars>>
  \/ startupFails("REQBUFS") /\ UNCHANGED bufs

\* Mutant: a failing call is tried again instead of reported.
mapBufferRetries ==
  LET i == Cardinality(queued) + 1 IN
  /\ pc = "map" /\ i <= Len(bufs)
  /\ \/ bufs' = [bufs EXCEPT ![i] = "mapped"] /\ queued' = queued \cup {i}
     \/ \E start \in {nullptr, "MAP_FAILED"} :
          bufs' = [bufs EXCEPT ![i] = start] /\ UNCHANGED queued
  /\ UNCHANGED <<pc, fd, activeFormat, fmt, streaming, held, picture, exitCode, adapted>>

\* One round of the loop: query, map and queue a buffer.
mapBuffer ==
  LET i == Cardinality(queued) + 1 IN
  \/ /\ pc = "map" /\ i <= Len(bufs)
     /\ bufs' = [bufs EXCEPT ![i] = "mapped"] /\ queued' = queued \cup {i}
     /\ UNCHANGED <<pc, fd, activeFormat, fmt, streaming, held, picture, exitCode,
                    adapted>>
  \/ /\ i <= Len(bufs)
     /\ \E start \in {nullptr, "MAP_FAILED", "mapped"} :
          bufs' = [bufs EXCEPT ![i] = start]
     /\ startupFails("map")

streamOn ==
  /\ Cardinality(queued) = Len(bufs)
  /\ \/ /\ goTo("map", "G_PARM") /\ streaming' = TRUE
        /\ UNCHANGED <<fd, activeFormat, fmt, bufs, queued, held, picture, exitCode,
                       adapted>>
     \/ startupFails("map") /\ UNCHANGED bufs

\* Whether the frame rate can be read or not, nothing depends on it.
getFramerate ==
  /\ goTo("G_PARM", "DQBUF")
  /\ UNCHANGED <<fd, fmt, bufs, held, picture, exitCode, adapted, driverVars>>
-----------------------------------------------------------------------------
\* The driver hands over a buffer it has filled, or the call fails.
takeSnapshotDequeue ==
  \/ /\ pc = "DQBUF" /\ streaming
     /\ \E i \in queued : held' = i /\ queued' = queued \ {i}
     /\ pc' = "save"
     /\ UNCHANGED <<fd, activeFormat, fmt, bufs, streaming, picture, exitCode, adapted>>
  \/ /\ goTo("DQBUF", "STREAMOFF")
     /\ UNCHANGED <<fd, fmt, bufs, held, picture, exitCode, adapted, driverVars>>

\* The picture is written, or the file cannot be opened or the format is not
\* supported; then the buffer goes back, which may fail.
\* Mutant: the buffer goes back before it is read.
takeSnapshotSaveRequeuesFirst ==
  /\ pc = "save"
  /\ IF held \notin queued
       THEN queued' = queued \cup {held} /\ UNCHANGED <<pc, held>>
       ELSE pc' = "STREAMOFF" /\ held' = NoFrame /\ UNCHANGED queued
  /\ UNCHANGED <<fd, activeFormat, fmt, bufs, streaming, picture, exitCode, adapted>>

takeSnapshotSave ==
  /\ goTo("save", "STREAMOFF")
  /\ \/ /\ fmt.fourcc = "YUYV"
        /\ \E p \in Yuv : picture' = {<<p, conv(p)>>}
     \/ fmt.fourcc = "MJPEG" /\ picture' = {<<fmt>>}
     \/ UNCHANGED picture
  /\ queued' \in {queued, queued \cup {held}} /\ held' = NoFrame
  /\ UNCHANGED <<fd, activeFormat, fmt, bufs, streaming, exitCode, adapted>>

\* Mutant: without close; the stream goes on if STREAMOFF failed.
shutdownWebcamWithoutClose ==
  /\ goTo("STREAMOFF", "exit")
  /\ bufs' = <<>> /\ exitCode' = 0
  /\ UNCHANGED <<fd, fmt, held, picture, adapted, driverVars>>

\* STREAMOFF, munmap of every buffer and close, which also stops the stream.  The
\* results are ignored, and nobody looks in between.  Line 137 unmaps what is not
\* null; that nothing else is there is part of EndsClean.
shutdownWebcam ==
  /\ goTo("STREAMOFF", "exit")
  /\ streaming' = FALSE /\ queued' = {} /\ bufs' = <<>> /\ fd' = FALSE
  /\ exitCode' = 0
  /\ UNCHANGED <<activeFormat, fmt, held, picture, adapted>>

terminated == pc = "exit" /\ UNCHANGED snapshotVars
-----------------------------------------------------------------------------
startupWebcam ==
  openDevice \/ getFormat \/ setFormat \/ requestBuffers \/ mapBuffer \/ streamOn

Step ==
  startupWebcam \/ getFramerate \/ takeSnapshotSave \/ shutdownWebcam

Next == Step \/ takeSnapshotDequeue \/ terminated

\* The program runs on; only VIDIOC_DQBUF waits for a frame that may not come.
Spec == Init /\ [][Next]_snapshotVars /\ WF_snapshotVars(Step)
-----------------------------------------------------------------------------
TypeOK ==
  /\ fd \in BOOLEAN /\ streaming \in BOOLEAN /\ adapted \in BOOLEAN
  /\ activeFormat \in Formats /\ fmt \in Formats \cup {NoFormat}
  /\ bufs \in Seq({nullptr, "mapped", "MAP_FAILED"}) /\ Len(bufs) <= MaxBuffers
  /\ queued \subseteq DOMAIN bufs /\ held \in DOMAIN bufs \cup {NoFrame}
  /\ exitCode \in {NoFrame, 0, 1}

(***************************************************************************)
(* takeSnapshot reads a mapped buffer that the driver has handed over and  *)
(* does not write to, and the conversion stays inside it.  The size of the *)
(* buffer is the driver's, the size the loop of yuyv_to_rgb runs over the  *)
(* program's: this rests on VIDIOC_S_FMT having succeeded, whose result    *)
(* line 94 ignores.                                                        *)
(***************************************************************************)
SnapshotReadsOwnBuffer ==
  pc = "save" =>
    /\ held \in DOMAIN bufs \ queued /\ bufs[held] = "mapped"
    /\ adapted => yuyvBytes(fmt.size) <= 2 * activeFormat.size

(***************************************************************************)
(* When main returns 0 the device is closed and no buffer is mapped, even  *)
(* if the snapshot failed half way; a failed start is reported and never   *)
(* leaves the camera streaming.  MAP_FAILED is never handed to munmap,     *)
(* though the test in line 137 would let it pass.                          *)
(***************************************************************************)
EndsClean ==
  /\ exitCode = 0 => ~fd /\ bufs = <<>> /\ queued = {}
  /\ exitCode = 1 => ~streaming
  /\ pc = "STREAMOFF" => \A i \in DOMAIN bufs : bufs[i] = "mapped"

(***************************************************************************)
(* The three formulas of yuyv_to_rgb fit together: a pixel without colour  *)
(* stays grey, and where no byte was clamped the RGB pixel has the luma of *)
(* the YUV pixel (0.299, 0.587 and 0.114 of BT.601), up to rounding.       *)
(***************************************************************************)
ColoursKept ==
  fmt.fourcc = "YUYV" =>
    \A saved \in picture :
      LET p    == saved[1]
          rgb  == saved[2]
          luma == 299 * rgb.r + 587 * rgb.g + 114 * rgb.b IN
      /\ p.u = 128 /\ p.v = 128 => {rgb.r, rgb.g, rgb.b} = {p.y}
      /\ {rgb.r, rgb.g, rgb.b} \subseteq 1 .. 254
           => luma - 1000 * p.y \in -1001 .. 1

\* main ends unless no frame ever comes.
Terminates == <>(pc = "exit") \/ <>[](pc = "DQBUF")

\* webcam.cpp:37: the member fmt is the "aktives Format", the active format.
FormatIsActive ==
  pc \in {"REQBUFS", "map", "G_PARM", "DQBUF", "save"} => fmt = activeFormat
=============================================================================
