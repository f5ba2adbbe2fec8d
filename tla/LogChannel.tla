----------------------------- MODULE LogChannel -----------------------------
(***************************************************************************)
(* What a caller of Utils::Logger relies on, with no thread in sight: a     *)
(* message that log() has accepted waits behind the ones accepted before    *)
(* it, and leaves the channel once, either written to the output or lost    *)
(* because the output could not be opened at that moment.                   *)
(***************************************************************************)
EXTENDS Naturals, Sequences

CONSTANT Message

VARIABLES pending, written

channelVars == <<pending, written>>

ChannelInit == pending = <<>> /\ written = <<>>

Accept == \E m \in Message : pending' = Append(pending, m) /\ UNCHANGED written

Write == /\ pending # <<>>
         /\ pending' = Tail(pending)
         /\ written' = Append(written, Head(pending))

Lose == pending # <<>> /\ pending' = Tail(pending) /\ UNCHANGED written

ChannelNext == Accept \/ Write \/ Lose

ChannelSpec == ChannelInit /\ [][ChannelNext]_channelVars
=============================================================================
