------------------------------ MODULE MCPayments ------------------------------
(***************************************************************************)
(* An instance of Payments for TLC.                                         *)
(***************************************************************************)
EXTENDS Payments, TLC

CONSTANTS alice, ledger, dear, twice, free2

\* of two requests on one channel the first costs more than its voucher adds, and
\* the second has two paid selections; a third asks for two free ones
MCPayer == (ledger :> alice)
MCClient == [r \in Request |-> alice]
MCThrough == (dear :> ledger) @@ (twice :> ledger) @@ (free2 :> NoVoucher)
MCSelections == (dear :> <<3>>) @@ (twice :> <<1, 1>>) @@ (free2 :> <<1, 1>>)
===============================================================================
