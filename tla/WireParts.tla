------------------------------ MODULE WireParts ------------------------------
(***************************************************************************)
(* What two pairs of small parts promise together: the two forms in which  *)
(* a node signs (Envelope for QUIC, RequestOnAir for LoRa), and the two    *)
(* things the map shows (a peer's age in PositionAge, the ground in        *)
(* Basemap).                                                               *)
(***************************************************************************)
EXTENDS Envelope, RequestOnAir, PositionAge, Basemap

\* What a node signs is what another reads, of an envelope and of a request on
\* the air (SpeaksForItsSender, MadeHereIsUnderstood, RequestIsMet).
SignedIsUnderstood == EnvelopeIsSound /\ RequestIsMet

\* What the map shows of a peer and of the ground is what is held of them
\* (ExpiredMeansMissed, ChecksumDescribes, CoverageCoversIncidents).
MapIsHonest == AgeTypeOK /\ ExpiredMeansMissed /\ ChecksumDescribes /\ CoverageCoversIncidents
=============================================================================
