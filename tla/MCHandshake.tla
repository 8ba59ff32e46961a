---------------------------- MODULE MCHandshake ----------------------------
EXTENDS Handshake

CONSTANT selectPort

MCOtherPort == {selectPort}
MCMenu == <<<<selectPort>>>>
NoStreams == <<>>

Plain == [noEncryption |-> FALSE, noAuthentication |-> FALSE,
          encryptionRequired |-> FALSE, encryptionNotAllowed |-> FALSE,
          authenticationRequired |-> FALSE, getProtocol |-> FALSE]

MCDevice ==
    {Plain,
     [Plain EXCEPT !.encryptionNotAllowed = TRUE, !.authenticationRequired = TRUE],
     [Plain EXCEPT !.encryptionRequired = TRUE, !.authenticationRequired = TRUE],
     [Plain EXCEPT !.noEncryption = TRUE, !.noAuthentication = TRUE,
                   !.getProtocol = TRUE]}

MCMasterFlags ==
    {NoFlags, [NoFlags EXCEPT !.encryptionRequired = TRUE],
     [NoFlags EXCEPT !.encryptionNotAllowed = TRUE],
     [NoFlags EXCEPT !.authenticationRequired = TRUE]}

\* No key, the right key, a wrong key.
MCMaster ==
    [flags : MCMasterFlags, listed : {TRUE}, keyFits : BOOLEAN]
    \cup [flags : MCMasterFlags, listed : {FALSE}, keyFits : {FALSE}]

MCOffer ==
    {[encodingKnown |-> TRUE, protocol |-> "BP"],
     [encodingKnown |-> TRUE, protocol |-> "EP"],
     [encodingKnown |-> TRUE, protocol |-> "none"],
     [encodingKnown |-> FALSE, protocol |-> "BP"]}

=============================================================================
