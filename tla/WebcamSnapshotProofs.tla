------------------------ MODULE WebcamSnapshotProofs ------------------------
(***************************************************************************)
(* For any driver, any picture size and any number of buffers: the         *)
(* snapshot program reads only a buffer it owns, leaves nothing behind     *)
(* when it succeeds, and converts colours consistently for every pixel.    *)
(*                                                                         *)
(* The invariants that are checked say what holds at the end of the calls; *)
(* the inductive one says what each call leaves to the next: which buffers *)
(* are mapped and queued, whose format is known, who streams.              *)
(***************************************************************************)
EXTENDS WebcamSnapshot, FiniteSetTheorems, TLAPS

(***************************************************************************)
(* The conversion.                                                         *)
(***************************************************************************)
\* std::max and std::min of two numbers.
LEMMA TwoNumbers ==
  ASSUME NEW a \in Int, NEW b \in Int
  PROVE  /\ Max({a, b}) = IF a >= b THEN a ELSE b
         /\ Min({a, b}) = IF a <= b THEN a ELSE b
  <1>1. \E m \in {a, b} : \A y \in {a, b} : m >= y
    <2>1. CASE a >= b
      BY <2>1
    <2>2. CASE b >= a
      BY <2>2
    <2>3. QED
      BY <2>1, <2>2
  <1>2. /\ Max({a, b}) \in {a, b} /\ Max({a, b}) >= a /\ Max({a, b}) >= b
    BY <1>1, Zenon DEF Max
  <1>3. \E m \in {a, b} : \A y \in {a, b} : m <= y
    <2>1. CASE a <= b
      BY <2>1
    <2>2. CASE b <= a
      BY <2>2
    <2>3. QED
      BY <2>1, <2>2
  <1>4. /\ Min({a, b}) \in {a, b} /\ Min({a, b}) <= a /\ Min({a, b}) <= b
    BY <1>3, Zenon DEF Min
  <1>5. QED
    BY <1>2, <1>4

\* A number is clamped to the range of a byte.
LEMMA Clamped ==
  ASSUME NEW x \in Int
  PROVE  clamp(x) = IF x < 0 THEN 0 ELSE IF x > 255 THEN 255 ELSE x
  <1>1. Max({0, x}) = IF 0 >= x THEN 0 ELSE x
    BY TwoNumbers
  <1>2. Max({0, x}) \in Int
    BY <1>1
  <1>3. Min({255, Max({0, x})}) = IF 255 <= Max({0, x}) THEN 255 ELSE Max({0, x})
    BY <1>2, TwoNumbers
  <1>4. QED
    BY <1>1, <1>3 DEF clamp

\* What yuyv_to_rgb promises for one pixel.
GreyKept(p, rgb) == p.u = 128 /\ p.v = 128 => {rgb.r, rgb.g, rgb.b} = {p.y}
LumaKept(p, rgb) ==
  {rgb.r, rgb.g, rgb.b} \subseteq 1 .. 254
    => (299 * rgb.r + 587 * rgb.g + 114 * rgb.b) - 1000 * p.y \in -1001 .. 1

\* Division by a million, as in the fixed-point formulas.
LEMMA Millions ==
  ASSUME NEW n \in Int
  PROVE  /\ n \div 1000000 \in Int
         /\ 1000000 * (n \div 1000000) <= n
         /\ n < 1000000 * (n \div 1000000) + 1000000
  BY SMT

\* The three formulas fit together for every pixel, not only for the samples.
LEMMA ConversionKeepsColour ==
  ASSUME NEW p \in Yuv PROVE GreyKept(p, conv(p)) /\ LumaKept(p, conv(p))
  <1>1. p.y \in 0 .. 255 /\ p.u \in 0 .. 255 /\ p.v \in 0 .. 255
    BY SnapshotAssumption DEF Yuv
  <1> DEFINE y == p.y
             u == p.u - 128
             v == p.v - 128
             A == y * 1000000 + 1402000 * v
             B == y * 1000000 - 344136 * u - 714136 * v
             C == y * 1000000 + 1772000 * u
             a == A \div 1000000
             b == B \div 1000000
             c == C \div 1000000
  <1>2. y \in 0 .. 255 /\ u \in -128 .. 127 /\ v \in -128 .. 127
    BY <1>1, SMT
  <1>3. conv(p).r = clamp(a) /\ conv(p).g = clamp(b) /\ conv(p).b = clamp(c)
    BY DEF conv
  <1>4. (p.u = 128 /\ p.v = 128) => (u = 0 /\ v = 0)
    BY <1>1, SMT
  <1>5. p.y = y
    OBVIOUS
  <1> HIDE DEF y, u, v
  <1>6. /\ A \in Int /\ A = y * 1000000 + 1402000 * v
        /\ B \in Int /\ B = y * 1000000 - 344136 * u - 714136 * v
        /\ C \in Int /\ C = y * 1000000 + 1772000 * u
    BY <1>2, SMT
  <1> HIDE DEF A, B, C
  <1>7. /\ a \in Int /\ 1000000 * a <= A /\ A < 1000000 * a + 1000000
        /\ b \in Int /\ 1000000 * b <= B /\ B < 1000000 * b + 1000000
        /\ c \in Int /\ 1000000 * c <= C /\ C < 1000000 * c + 1000000
    BY <1>6, Millions, SMT
  <1> HIDE DEF a, b, c
  <1>8. GreyKept(p, conv(p))
    <2> SUFFICES ASSUME p.u = 128, p.v = 128
                 PROVE  {conv(p).r, conv(p).g, conv(p).b} = {p.y}
      BY DEF GreyKept
    <2>1. a = y /\ b = y /\ c = y
      BY <1>2, <1>4, <1>6, <1>7, SMT
    <2>2. clamp(y) = y
      BY <1>2, Clamped, SMT
    <2>3. QED
      BY <1>3, <1>5, <2>1, <2>2, Zenon
  <1>9. LumaKept(p, conv(p))
    <2> SUFFICES ASSUME {clamp(a), clamp(b), clamp(c)} \subseteq 1 .. 254
                 PROVE  (299 * clamp(a) + 587 * clamp(b) + 114 * clamp(c)) - 1000 * y
                          \in -1001 .. 1
      BY <1>3, <1>5 DEF LumaKept
    <2>1. clamp(a) = a /\ clamp(b) = b /\ clamp(c) = c
      BY <1>7, Clamped, SMT
    <2>2. (299 * a + 587 * b + 114 * c) - 1000 * y \in -1001 .. 1
      BY <1>2, <1>6, <1>7, SMT
    <2>3. QED
      BY <2>1, <2>2
  <1>10. QED
    BY <1>8, <1>9
-----------------------------------------------------------------------------
(***************************************************************************)
(* What holds before each call of main.                                    *)
(***************************************************************************)
BeforeBuffers == {"open", "G_FMT", "S_FMT", "REQBUFS"}
Running       == {"G_PARM", "DQBUF", "save", "STREAMOFF"}

\* The loop of startupWebcam has mapped and queued the first buffers; after it
\* all of them are mapped, and takeSnapshot holds one that is not queued.
BuffersOK ==
  /\ pc \in BeforeBuffers => bufs = <<>> /\ queued = {}
  /\ pc = "map" => \E k \in 0 .. Len(bufs) :
                     queued = 1 .. k /\ \A i \in 1 .. k : bufs[i] = "mapped"
  /\ pc \in Running => \A i \in DOMAIN bufs : bufs[i] = "mapped"
  /\ held = NoFrame <=> pc # "save"
  /\ pc = "save" => held \notin queued

\* The camera streams only while the program runs, and how main ends.
EndOK ==
  /\ pc \in BeforeBuffers \cup Running \cup {"map", "exit"}
  /\ pc # "exit" => exitCode = NoFrame
  /\ streaming => pc \in Running
  /\ exitCode = 0 => ~fd /\ bufs = <<>> /\ queued = {}

\* A format that VIDIOC_S_FMT returned is the driver's, and one it knows.
FormatOK ==
  /\ pc \in {"open", "G_FMT", "S_FMT"} => ~adapted /\ picture = {}
  /\ adapted => fmt = activeFormat /\ fmt.size \in Sizes

\* A saved YUYV picture is the conversion of a pixel.
PictureOK ==
  fmt.fourcc = "YUYV" => \A saved \in picture : \E p \in Yuv : saved = <<p, conv(p)>>

SnapshotInv == TypeOK /\ BuffersOK /\ EndOK /\ FormatOK /\ PictureOK

\* The calls of main, one after the other.
LEMMA StartupStep ==
  SnapshotInv /\ (openDevice \/ getFormat \/ setFormat \/ requestBuffers) => SnapshotInv'
  <1> SUFFICES ASSUME SnapshotInv,
                      openDevice \/ getFormat \/ setFormat \/ requestBuffers
               PROVE  SnapshotInv'
    OBVIOUS
  <1> USE DEF SnapshotInv, goTo, startupFails, driverVars, BeforeBuffers, Running
  <1>1. CASE openDevice
    <2>1. TypeOK'
      BY <1>1 DEF openDevice, TypeOK, BuffersOK, NoFrame
    <2>2. BuffersOK'
      BY <1>1 DEF openDevice, TypeOK, BuffersOK, NoFrame
    <2>3. EndOK'
      BY <1>1 DEF openDevice, EndOK, NoFrame
    <2>4. FormatOK' /\ PictureOK'
      BY <1>1 DEF openDevice, FormatOK, PictureOK
    <2>5. QED
      BY <2>1, <2>2, <2>3, <2>4
  <1>2. CASE getFormat
    <2>1. TypeOK'
      BY <1>2 DEF getFormat, TypeOK, BuffersOK, NoFrame
    <2>2. BuffersOK'
      BY <1>2 DEF getFormat, TypeOK, BuffersOK, NoFrame
    <2>3. EndOK'
      BY <1>2 DEF getFormat, EndOK, NoFrame
    <2>4. FormatOK' /\ PictureOK'
      BY <1>2 DEF getFormat, FormatOK, PictureOK
    <2>5. QED
      BY <2>1, <2>2, <2>3, <2>4
  <1>3. CASE setFormat
    <2>1. TypeOK'
      <3>1. [fmt EXCEPT !.size = WishedSize] \in Formats
        <4>1. CASE fmt \in Formats
          BY <4>1 DEF Formats
        <4>2. CASE fmt = NoFormat
          BY <4>2 DEF NoFormat, Formats, Fourcc
        <4>3. QED
          BY <4>1, <4>2 DEF TypeOK
      <3>2. [size : Sizes, fourcc : Fourcc] \subseteq Formats
        BY DEF Formats
      <3>3. activeFormat' \in Formats /\ fmt' \in Formats /\ adapted' \in BOOLEAN
        BY <1>3, <3>1, <3>2 DEF setFormat, TypeOK
      <3>4. QED
        BY <1>3, <3>3 DEF setFormat, TypeOK
    <2>2. BuffersOK'
      BY <1>3 DEF setFormat, TypeOK, BuffersOK, NoFrame
    <2>3. EndOK'
      BY <1>3 DEF setFormat, EndOK, NoFrame
    <2>4. FormatOK' /\ PictureOK'
      BY <1>3 DEF setFormat, FormatOK, PictureOK, Formats
    <2>5. QED
      BY <2>1, <2>2, <2>3, <2>4
  <1>4. CASE requestBuffers
    <2>1. TypeOK'
      BY <1>4 DEF requestBuffers, TypeOK, BuffersOK, NoFrame
    <2>2. BuffersOK'
      <3>1. CASE pc' = "map"
        <4>1. queued' = 1 .. 0 /\ 0 \in 0 .. Len(bufs')
          BY <1>4, <2>1, <3>1 DEF requestBuffers, TypeOK, BuffersOK
        <4>2. QED
          BY <1>4, <3>1, <4>1 DEF requestBuffers, BuffersOK
      <3>2. CASE pc' = "exit"
        BY <1>4, <3>2 DEF requestBuffers, BuffersOK
      <3>3. QED
        BY <1>4, <3>1, <3>2 DEF requestBuffers
    <2>3. EndOK'
      BY <1>4 DEF requestBuffers, EndOK, NoFrame
    <2>4. FormatOK' /\ PictureOK'
      BY <1>4 DEF requestBuffers, FormatOK, PictureOK
    <2>5. QED
      BY <2>1, <2>2, <2>3, <2>4
  <1>5. QED
    BY <1>1, <1>2, <1>3, <1>4

\* The loop maps and queues one buffer after the other, and ends when it has
\* queued them all.
LEMMA MapStep == SnapshotInv /\ (mapBuffer \/ streamOn) => SnapshotInv'
  <1> SUFFICES ASSUME SnapshotInv, mapBuffer \/ streamOn PROVE SnapshotInv'
    OBVIOUS
  <1> USE DEF SnapshotInv, goTo, startupFails, driverVars, BeforeBuffers, Running
  <1>1. pc = "map"
    BY DEF mapBuffer, streamOn
  <1>2. PICK k \in 0 .. Len(bufs) : queued = 1 .. k /\ \A i \in 1 .. k : bufs[i] = "mapped"
    BY <1>1 DEF BuffersOK
  <1>3. Len(bufs) \in Nat /\ DOMAIN bufs = 1 .. Len(bufs) /\ k \in Nat
    BY DEF TypeOK
  <1>4. Cardinality(queued) = k
    BY <1>2, <1>3, FS_Interval
  <1>5. held = NoFrame /\ pc' \in {"map", "G_PARM", "exit"}
    BY <1>1 DEF mapBuffer, streamOn, BuffersOK
  <1>6. CASE mapBuffer
    <2> DEFINE states == {nullptr, "mapped", "MAP_FAILED"}
    <2>1. k + 1 \in 1 .. Len(bufs)
      BY <1>3, <1>4, <1>6 DEF mapBuffer
    <2>2. \E start \in states : bufs' = [bufs EXCEPT ![k + 1] = start]
      BY <1>4, <1>6 DEF mapBuffer
    <2>3. bufs \in Seq(states) /\ bufs' \in Seq(states) /\ Len(bufs') = Len(bufs)
      BY <2>1, <2>2 DEF TypeOK
    <2>4. DOMAIN bufs' = DOMAIN bufs
      BY <2>2
    <2>5. \/ /\ pc' = "map" /\ queued' = queued \cup {k + 1}
             /\ bufs' = [bufs EXCEPT ![k + 1] = "mapped"] /\ exitCode' = exitCode
          \/ pc' = "exit" /\ queued' = queued /\ exitCode' = 1
      BY <1>1, <1>4, <1>6 DEF mapBuffer
    <2>6. UNCHANGED <<fd, activeFormat, fmt, streaming, held, picture, adapted>>
      BY <1>6 DEF mapBuffer
    <2>7. queued' \subseteq DOMAIN bufs'
      BY <1>2, <1>3, <2>1, <2>4, <2>5
    <2>8. TypeOK'
      BY <1>5, <2>3, <2>4, <2>5, <2>6, <2>7 DEF TypeOK
    <2>9. BuffersOK'
      <3>1. CASE pc' = "map"
        <4>1. /\ queued' = 1 .. k + 1 /\ k + 1 \in 0 .. Len(bufs')
              /\ \A i \in 1 .. k + 1 : bufs'[i] = "mapped"
          <5>1. /\ queued' = (1 .. k) \cup {k + 1}
                /\ bufs' = [bufs EXCEPT ![k + 1] = "mapped"]
            BY <1>2, <2>5, <3>1
          <5>2. \A i \in 1 .. k + 1 : i \in 1 .. k \/ i = k + 1
            BY <1>3
          <5>3. \A i \in 1 .. k + 1 : bufs'[i] = "mapped"
            BY <1>2, <1>3, <2>1, <5>1, <5>2
          <5>4. queued' = 1 .. k + 1
            BY <1>3, <5>1, <5>2
          <5>5. QED
            BY <2>1, <2>3, <5>3, <5>4
        <4>2. QED
          BY <1>5, <2>6, <3>1, <4>1 DEF BuffersOK
      <3>2. CASE pc' = "exit"
        BY <1>5, <2>6, <3>2 DEF BuffersOK
      <3>3. QED
        BY <2>5, <3>1, <3>2
    <2>10. EndOK'
      BY <1>1, <2>5, <2>6 DEF EndOK, NoFrame
    <2>11. FormatOK' /\ PictureOK'
      BY <1>1, <2>5, <2>6 DEF FormatOK, PictureOK
    <2>12. QED
      BY <2>8, <2>9, <2>10, <2>11
  <1>7. CASE streamOn
    <2>1. bufs' = bufs /\ queued' = queued /\ held' = held
      BY <1>7 DEF streamOn
    <2>2. k = Len(bufs)
      BY <1>4, <1>7 DEF streamOn
    <2>3. \A i \in DOMAIN bufs : bufs[i] = "mapped"
      BY <1>2, <1>3, <2>2
    <2>4. TypeOK'
      BY <1>7 DEF streamOn, TypeOK
    <2>5. BuffersOK'
      BY <1>5, <1>7, <2>1, <2>3 DEF streamOn, BuffersOK
    <2>6. EndOK'
      BY <1>7 DEF streamOn, EndOK, NoFrame
    <2>7. FormatOK' /\ PictureOK'
      BY <1>7 DEF streamOn, FormatOK, PictureOK
    <2>8. QED
      BY <2>4, <2>5, <2>6, <2>7
  <1>8. QED
    BY <1>6, <1>7

\* Taking the snapshot and shutting down.
LEMMA RunStep ==
  SnapshotInv /\ (getFramerate \/ takeSnapshotDequeue \/ takeSnapshotSave \/ shutdownWebcam)
    => SnapshotInv'
  <1> SUFFICES ASSUME SnapshotInv,
                      \/ getFramerate \/ takeSnapshotDequeue
                      \/ takeSnapshotSave \/ shutdownWebcam
               PROVE  SnapshotInv'
    OBVIOUS
  <1> USE DEF SnapshotInv, goTo, driverVars, BeforeBuffers, Running
  <1>1. CASE getFramerate
    <2>1. TypeOK'
      BY <1>1 DEF getFramerate, TypeOK, BuffersOK, NoFrame
    <2>2. BuffersOK'
      BY <1>1 DEF getFramerate, TypeOK, BuffersOK, NoFrame
    <2>3. EndOK'
      BY <1>1 DEF getFramerate, EndOK, NoFrame
    <2>4. FormatOK' /\ PictureOK'
      BY <1>1 DEF getFramerate, FormatOK, PictureOK
    <2>5. QED
      BY <2>1, <2>2, <2>3, <2>4
  <1>2. CASE takeSnapshotDequeue
    <2>1. TypeOK'
      BY <1>2 DEF takeSnapshotDequeue, TypeOK, BuffersOK, NoFrame
    <2>2. BuffersOK'
      BY <1>2 DEF takeSnapshotDequeue, TypeOK, BuffersOK, NoFrame
    <2>3. EndOK'
      BY <1>2 DEF takeSnapshotDequeue, EndOK, NoFrame
    <2>4. FormatOK' /\ PictureOK'
      BY <1>2 DEF takeSnapshotDequeue, FormatOK, PictureOK
    <2>5. QED
      BY <2>1, <2>2, <2>3, <2>4
  <1>3. CASE takeSnapshotSave
    <2>1. TypeOK'
      BY <1>3 DEF takeSnapshotSave, TypeOK, BuffersOK, NoFrame
    <2>2. BuffersOK'
      BY <1>3 DEF takeSnapshotSave, TypeOK, BuffersOK, NoFrame
    <2>3. EndOK'
      BY <1>3 DEF takeSnapshotSave, EndOK, NoFrame
    <2>4. FormatOK' /\ PictureOK'
      BY <1>3 DEF takeSnapshotSave, FormatOK, PictureOK
    <2>5. QED
      BY <2>1, <2>2, <2>3, <2>4
  <1>4. CASE shutdownWebcam
    <2>1. TypeOK'
      <3>1. <<>> \in Seq({nullptr, "mapped", "MAP_FAILED"}) /\ Len(<<>>) <= MaxBuffers
        BY SnapshotAssumption
      <3>2. /\ bufs' = <<>> /\ queued' = {} /\ held' = NoFrame /\ exitCode' = 0
            /\ streaming' = FALSE /\ fd' = FALSE
            /\ UNCHANGED <<activeFormat, fmt, adapted>>
        BY <1>4 DEF shutdownWebcam, BuffersOK
      <3>3. QED
        BY <3>1, <3>2 DEF TypeOK
    <2>2. BuffersOK'
      BY <1>4 DEF shutdownWebcam, TypeOK, BuffersOK, NoFrame
    <2>3. EndOK'
      BY <1>4 DEF shutdownWebcam, EndOK, NoFrame
    <2>4. FormatOK' /\ PictureOK'
      BY <1>4 DEF shutdownWebcam, FormatOK, PictureOK
    <2>5. QED
      BY <2>1, <2>2, <2>3, <2>4
  <1>5. QED
    BY <1>1, <1>2, <1>3, <1>4
-----------------------------------------------------------------------------
\* The inductive invariant holds whichever system call fails.
LEMMA SnapshotInvariant == Spec => []SnapshotInv
  <1>1. Init => SnapshotInv
    <2> SUFFICES ASSUME Init PROVE SnapshotInv
      OBVIOUS
    <2>1. <<>> \in Seq({nullptr, "mapped", "MAP_FAILED"}) /\ Len(<<>>) <= MaxBuffers
      BY SnapshotAssumption
    <2>2. TypeOK
      BY <2>1 DEF Init, TypeOK, Formats
    <2>3. BuffersOK /\ EndOK /\ FormatOK /\ PictureOK
      BY DEF Init, BuffersOK, EndOK, FormatOK, PictureOK, BeforeBuffers, Running,
         NoFrame
    <2>4. QED
      BY <2>2, <2>3 DEF SnapshotInv
  <1>2. SnapshotInv /\ UNCHANGED snapshotVars => SnapshotInv'
    BY DEF snapshotVars, SnapshotInv, TypeOK, BuffersOK, EndOK, FormatOK, PictureOK
  <1>3. SnapshotInv /\ [Next]_snapshotVars => SnapshotInv'
    BY <1>2, StartupStep, MapStep, RunStep DEF Next, Step, startupWebcam, terminated
  <1>4. QED
    BY <1>1, <1>3, PTL DEF Spec

\* The variables of the snapshot program keep their types; in particular the
\* program never holds or queues a buffer it did not ask for.
THEOREM SnapshotTypeCorrect == Spec => []TypeOK
  BY SnapshotInvariant, PTL DEF SnapshotInv

\* takeSnapshot reads a mapped buffer the driver does not write to, and after a
\* successful VIDIOC_S_FMT the conversion stays inside it, for every even size.
THEOREM OwnBufferRead == Spec => []SnapshotReadsOwnBuffer
  <1>1. SnapshotInv => SnapshotReadsOwnBuffer
    <2> SUFFICES ASSUME SnapshotInv, pc = "save" PROVE
          /\ held \in DOMAIN bufs \ queued /\ bufs[held] = "mapped"
          /\ adapted => yuyvBytes(fmt.size) <= 2 * activeFormat.size
      BY DEF SnapshotReadsOwnBuffer
    <2>1. held \in DOMAIN bufs \ queued /\ bufs[held] = "mapped"
      BY DEF SnapshotInv, TypeOK, BuffersOK, Running
    <2>2. ASSUME NEW n \in Nat, n % 2 = 0 PROVE yuyvBytes(n) <= 2 * n
      BY <2>2, SMT DEF yuyvBytes
    <2>3. adapted => fmt = activeFormat /\ fmt.size \in Nat /\ fmt.size % 2 = 0
      BY SnapshotAssumption DEF SnapshotInv, FormatOK
    <2>4. QED
      BY <2>1, <2>2, <2>3
  <1>2. QED
    BY <1>1, SnapshotInvariant, PTL

\* When main returns 0 nothing is left open, mapped or queued, a failed start
\* leaves no stream behind, and MAP_FAILED never reaches munmap.
THEOREM MainEndsClean == Spec => []EndsClean
  <1>1. SnapshotInv => EndsClean
    BY DEF SnapshotInv, BuffersOK, EndOK, EndsClean, Running, BeforeBuffers, NoFrame
  <1>2. QED
    BY <1>1, SnapshotInvariant, PTL

\* A pixel without colour stays grey and an unclamped pixel keeps its luma, for
\* every pixel and not only for the samples TLC follows.
THEOREM ColoursAreKept == Spec => []ColoursKept
  <1>1. SnapshotInv => ColoursKept
    <2> SUFFICES ASSUME SnapshotInv, fmt.fourcc = "YUYV", NEW saved \in picture
                 PROVE  GreyKept(saved[1], saved[2]) /\ LumaKept(saved[1], saved[2])
      BY DEF ColoursKept, GreyKept, LumaKept
    <2>1. PICK p \in Yuv : saved = <<p, conv(p)>>
      BY DEF SnapshotInv, PictureOK
    <2>2. QED
      BY <2>1, ConversionKeepsColour
  <1>2. QED
    BY <1>1, SnapshotInvariant, PTL
=============================================================================
