----------------------------- MODULE MCDaemonSocket -----------------------------
(* Four daemons, every combination of environment, config file and token.       *)
EXTENDS DaemonSocket, TLC

CONSTANTS d1, d2, d3, d4

MCDaemon == {d1, d2, d3, d4}
MCSymmetry == Permutations(MCDaemon)
MCSetting == [envBackend : BackendText, envUrl : UrlText,
              fileBackend : BackendText, fileUrl : UrlText,
              tokenVar : TokenVar, tokenFile : TokenFile]
=============================================================================
