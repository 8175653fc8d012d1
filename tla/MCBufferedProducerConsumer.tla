--------------------- MODULE MCBufferedProducerConsumer ---------------------
(* Instances of BufferedProducerConsumer for TLC.                           *)
EXTENDS BufferedProducerConsumer

LongAndShort == <<5, 2, 1>>
=============================================================================
