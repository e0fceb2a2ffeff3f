----------------------------- MODULE MCStartup -----------------------------
(* Startup for TLC.                                                         *)
EXTENDS Startup

CONSTANTS POLYGON

\* The server lists both chains, or the default one of a new keys.db no longer.
MCAnswers == {{ETH, POLYGON}, {POLYGON}}

\* The server always lists both.
MCOneAnswer == {{ETH, POLYGON}}
=============================================================================
