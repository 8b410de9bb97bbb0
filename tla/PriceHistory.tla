---------------------------- MODULE PriceHistory -----------------------------
(* The asking price of a listing and its history, as PUT /properties/:id     *)
(* keeps them: read, history row, other checks, write.                       *)
EXTENDS Integers, FiniteSets, Sequences

CONSTANTS PriceReq,  \* requests that may overlap
          Prices     \* prices a caller may send; the DTO accepts 0

ASSUME PriceHistoryAssumption == IsFiniteSet(PriceReq) /\ Prices \subseteq Nat /\ Prices # {}

VARIABLES price,    \* the column
          prices,  \* oldPrice and newPrice of the last two history rows
          phReq,    \* what each request has read, wants and does next
          phSlip    \* history: an update was refused late, sent 0, or overlapped another

phVars == <<price, prices, phReq, phSlip>>

PhIdle == [op |-> "idle", seen |-> CHOOSE p \in Prices : TRUE,
           new |-> CHOOSE p \in Prices : TRUE, stale |-> FALSE]
PriceRow == [oldPrice : Prices, newPrice : Prices]

PhTypeOK == /\ price \in Prices /\ phSlip \in BOOLEAN
            /\ prices \in {<<>>} \union (PriceRow \X PriceRow) \union {<<x>> : x \in PriceRow}
            /\ phReq \in [PriceReq -> [op : {"idle", "log", "write"}, seen : Prices,
                                       new : Prices, stale : BOOLEAN]]

PhInit == /\ price \in Prices /\ prices = <<>> /\ phSlip = FALSE
          /\ phReq = [r \in PriceReq |-> PhIdle]

\* update: the row is read; a different price is recorded before anything else
readPrice(r) == \E p \in Prices :
    /\ phReq[r].op = "idle"
    /\ phReq' = [phReq EXCEPT ![r] = [op |-> IF p # price THEN "log" ELSE "write",
                                      seen |-> price, new |-> p, stale |-> FALSE]]
    /\ UNCHANGED <<price, prices, phSlip>>

recordChange_Swapped(r) ==
    LET row == [oldPrice |-> phReq[r].new, newPrice |-> phReq[r].seen] IN
    /\ phReq[r].op = "log" /\ phReq' = [phReq EXCEPT ![r].op = "write"]
    /\ prices' = IF prices = <<>> THEN <<row>> ELSE <<prices[Len(prices)], row>>
    /\ phSlip' = (phSlip \/ phReq[r].stale) /\ UNCHANGED price

\* oldPrice is the price that was read
recordChange(r) ==
    LET row == [oldPrice |-> phReq[r].seen, newPrice |-> phReq[r].new] IN
    /\ phReq[r].op = "log" /\ phReq' = [phReq EXCEPT ![r].op = "write"]
    /\ prices' = IF prices = <<>> THEN <<row>> ELSE <<prices[Len(prices)], row>>
    /\ phSlip' = (phSlip \/ phReq[r].stale) /\ UNCHANGED price

\* a duplicate address, or an error of the database, ends the update here
refuse(r) == /\ phReq[r].op = "write" /\ phReq' = [phReq EXCEPT ![r] = PhIdle]
             /\ phSlip' = (phSlip \/ phReq[r].new # phReq[r].seen) /\ UNCHANGED <<price, prices>>

\* 0 is falsy, and leaves the column as it is
writePrice(r) ==
    /\ phReq[r].op = "write" /\ UNCHANGED prices
    /\ price' = IF phReq[r].new = 0 THEN price ELSE phReq[r].new
    /\ phReq' = [s \in PriceReq |-> IF s = r THEN PhIdle
                                    ELSE [phReq[s] EXCEPT !.stale = phReq[s].op # "idle"]]
    /\ phSlip' = (phSlip \/ phReq[r].stale \/ (phReq[r].new = 0 /\ phReq[r].seen # 0))

PhStep(r) == readPrice(r) \/ recordChange(r) \/ refuse(r) \/ writePrice(r)

PhNext == \E r \in PriceReq : PhStep(r)

PhSpec == PhInit /\ [][PhNext]_phVars

-----------------------------------------------------------------------------
(* Between updates the price history ends with the asking price and its rows *)
(* join up, unless an update was refused after its history row, asked for    *)
(* the price 0, or overlapped another one (properties.service.ts:413-433,    *)
(* 510).                                                                     *)
HistoryEndsAtPrice ==
    (~phSlip /\ \A r \in PriceReq : phReq[r].op = "idle") =>
        /\ prices # <<>> => prices[Len(prices)].newPrice = price
        /\ Len(prices) = 2 => prices[1].newPrice = prices[2].oldPrice
=============================================================================
