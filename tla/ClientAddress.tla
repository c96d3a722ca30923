--------------------------- MODULE ClientAddress ---------------------------
(***************************************************************************)
(* getClientIP of src/ip-utils.ts: the address a connection counts for.    *)
(* A request has the headers cf-connecting-ip and x-real-ip, an address or *)
(* "" (missing or empty); x-forwarded-for, the addresses between its       *)
(* commas, or <<>>; and the address of its socket, "" when that is gone.   *)
(***************************************************************************)
EXTENDS Sequences

getClientIP(req) ==
    CASE req.cfConnectingIP # "" -> req.cfConnectingIP
      [] req.cfConnectingIP = "" /\ req.xForwardedFor # <<>> ->
            Head(req.xForwardedFor)
      [] req.cfConnectingIP = "" /\ req.xForwardedFor = <<>> /\ req.xRealIP # "" ->
            req.xRealIP
      [] OTHER -> IF req.remoteAddress # "" THEN req.remoteAddress ELSE "unknown"

=============================================================================
