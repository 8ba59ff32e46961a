--------------------------- MODULE MCSlaveSession ---------------------------
EXTENDS SlaveSession

CONSTANTS sp1, sp2, selectPort, digPort

MCStreamingPort == {sp1, sp2}
MCOtherPort == {selectPort, digPort}
MCStreamOrder == <<sp1, sp2>>
MCMenu == <<<<selectPort, digPort>>, <<selectPort, sp1, sp2>>>>

Plain == [noEncryption |-> FALSE, noAuthentication |-> FALSE,
          encryptionRequired |-> FALSE, encryptionNotAllowed |-> FALSE,
          authenticationRequired |-> FALSE, getProtocol |-> FALSE]

\* Builds with encryption and authentication, as in configs/LinOPDI.
FullDevice ==
    {Plain,
     [Plain EXCEPT !.getProtocol = TRUE, !.encryptionNotAllowed = TRUE],
     [Plain EXCEPT !.encryptionRequired = TRUE, !.authenticationRequired = TRUE]}

\* A build with less code, as in configs/Chromashade.
ReducedDevice == {[Plain EXCEPT !.noEncryption = TRUE, !.noAuthentication = TRUE]}

SmallDevice == ReducedDevice \cup {[Plain EXCEPT !.authenticationRequired = TRUE]}

SmallMasterFlags == {NoFlags, [NoFlags EXCEPT !.authenticationRequired = TRUE]}
SmallStreamOrder == <<sp1>>
SmallMenu == <<<<selectPort>>, <<selectPort, sp1>>>>

=============================================================================
