----------------------------- MODULE MCXmitPools -----------------------------
(* Two stations, two categories: VO is served before BE.  A packet of the   *)
(* VO transmit queue is best effort when its peer has no QoS.               *)
EXTENDS XmitPools

MCInx == <<"VO", "BE">>
MCClasses == [VO |-> {"VO", "BE"}, BE |-> {"BE"}]
=============================================================================
