----------------------------- MODULE MCUartCli -----------------------------
(* UartCli on a small instance: two letters make the words of two letters, *)
(* a ring of three samples, three buckets, samples on a bound, cut off by  *)
(* the ring, and from a period that was short.                             *)
EXTENDS UartCli

MCBounds      == << 1, 3 >>
MCLatencyWord == << "l" >>
MCResetWord   == << "r" >>
=============================================================================
