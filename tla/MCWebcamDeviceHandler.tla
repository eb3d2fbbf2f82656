----------------------- MODULE MCWebcamDeviceHandler -----------------------
EXTENDS WebcamDeviceHandler

\* The three commands and the bytes just outside the enumeration.
MCRawCommands == {0, 1, 2, 3, 4, 255}
=============================================================================
