--------------------------- MODULE MCRequestPath ---------------------------
(***************************************************************************)
(* Small instances of RequestPath: a sheddable and a standard request, two *)
(* endpoints of which one may be deleted and come back.                    *)
(***************************************************************************)
EXTENDS RequestPath

CONSTANTS r1, r2, e1, e2

MCPriority == [r \in Requests |-> IF r = r2 THEN -1 ELSE 0]
MCPools == {{e1}, {e1, e2}}
MCSize == [r \in Requests |-> IF r = r1 THEN 3 ELSE 9]
=============================================================================
