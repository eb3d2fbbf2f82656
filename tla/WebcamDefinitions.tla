------------------------- MODULE WebcamDefinitions -------------------------
(***************************************************************************)
(* The mission's shared vocabulary: mission/webcam/WebcamDefinitions.h and *)
(* mission/messaging/MessageTypes.cpp.  Enumerators keep the numbers the   *)
(* source gives them, because they travel between components as raw bytes. *)
(***************************************************************************)
EXTENDS Naturals

commandTakeSnapshot == 1
commandSetFrameRate == 2
commandGetFrameRate == 3
CommandId == {commandTakeSnapshot, commandSetFrameRate, commandGetFrameRate}

\* The framework's "no command" marker; any number outside CommandId.
NO_COMMAND_ID == 0

parameterFrameRate == 1

\* The byte a commander puts in the low part of a DEVICE_HANDLER_COMMAND id.
Byte == 0 .. 255

\* The id of a command message: its type and, in the low byte, what it commands.
\* The type's number is the framework's; any number but 0 does.
DEVICE_HANDLER_COMMAND == 1
makeCommandId(messageType, byte) == 256 * messageType + byte

\* Mutant: the cast and the mask are forgotten, the message type stays in.
lowByteUnmasked(id) == id

\* static_cast<uint8_t> when the id is made, & 0xff when it is taken apart.
lowByte(id) == id % 256

\* Mutant: the enumerators are taken to count from 0.
commandToRawShifted(command) == command + 1

\* A cast: the enumerators have the numbers of the raw commands.
commandToRaw(command) == command

isValidCommand(candidate) == candidate \in CommandId

\* Whether the conversion succeeds; the conversion itself is a cast.
rawToCommand(raw) == isValidCommand(raw)
=============================================================================
