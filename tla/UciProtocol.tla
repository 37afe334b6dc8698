----------------------------- MODULE UciProtocol -----------------------------
(***************************************************************************)
(* What src/shell/uci.c promises a GUI: every `go` that there is memory to *)
(* set up is answered by one `bestmove`, in order, and what the searches   *)
(* read (the position, the options, the tables) changes or goes away only  *)
(* between searches.                                                       *)
(***************************************************************************)
EXTENDS Naturals

VARIABLES asked,     \* how many `go` commands were taken and set up
          answered,  \* how many `bestmove` lines were printed
          board,     \* version of everything a search reads
          live       \* the process has not been torn down

protocolVars == <<asked, answered, board, live>>

ProtocolInit == asked = 0 /\ answered = 0 /\ board = 0 /\ live = TRUE

Quiet == live /\ asked = answered

Ask == Quiet /\ asked' = asked + 1 /\ UNCHANGED <<answered, board, live>>

\* A mate or stalemate root is answered on the spot.
AskTerminal == /\ Quiet
               /\ asked' = asked + 1 /\ answered' = answered + 1
               /\ UNCHANGED <<board, live>>

Answer == /\ live /\ answered < asked
          /\ answered' = answered + 1
          /\ UNCHANGED <<asked, board, live>>

Change == Quiet /\ board' = board + 1 /\ UNCHANGED <<asked, answered, live>>

Leave == Quiet /\ live' = FALSE /\ UNCHANGED <<asked, answered, board>>

ProtocolNext == Ask \/ AskTerminal \/ Answer \/ Change \/ Leave

ProtocolSafety == ProtocolInit /\ [][ProtocolNext]_protocolVars
=============================================================================
