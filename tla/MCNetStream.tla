----------------------------- MODULE MCNetStream -----------------------------
(***************************************************************************)
(* A process of the network library: the connections of NetAsio, and the   *)
(* messages on one of them, with both receivers.  Neither reads the        *)
(* other's state.  NetStream's connection lives as long as messages        *)
(* travel, so the others stand still here as Connector::connect() and      *)
(* Acceptor::listen() leave them; what becomes of them is in MCNetAsio.    *)
(***************************************************************************)
EXTENDS NetAsio

CONSTANTS Receivers, MaxSent, MaxWriting

VARIABLES receiver, sent, writing, wire, readbuf_, reader, strand_, handled, mixed

Stream == INSTANCE NetStream

ASSUME StreamAssumption == Stream!StreamConfig

MCReceivers == {"Client", "Acceptor"}

streamvars == <<receiver, sent, writing, wire, readbuf_, reader, strand_, handled, mixed>>
processvars == <<vars, streamvars>>

StreamStep == Stream!Next /\ UNCHANGED vars

StreamSpec == Init /\ Stream!Init /\ [][StreamStep]_processvars /\ Stream!Fairness

HandledAsSent == Stream!HandledAsSent
EveryMessageHandled == Stream!EveryMessageHandled
==============================================================================
