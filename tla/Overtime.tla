------------------------------ MODULE Overtime ------------------------------
(***************************************************************************)
(* OvertimeCalculator: what a rental that was kept for `used' minutes owes *)
(* on top of the band it paid for, by a set of bands [minutes, price].     *)
(* Nothing calls it in this repository yet but its unit test.              *)
(***************************************************************************)
EXTENDS Integers, SequencesExt

\* tariffs.sort(...): every band once, in the order of the minutes.
ByMinutes_DearestFirst(bands) ==
    CHOOSE s \in SetToSeqs(bands) : \A i, j \in DOMAIN s : i < j => s[i].price >= s[j].price
ByMinutes(bands) ==
    CHOOSE s \in SetToSeqs(bands) : \A i, j \in DOMAIN s : i < j => s[i].minutes <= s[j].minutes

RoundUpToBand_Strictly(used, bands) ==
    LET sorted == ByMinutes(bands)
        n == SelectInSeq(sorted, LAMBDA b : used < b.minutes)
    IN  IF sorted = <<>> THEN used ELSE sorted[IF n = 0 THEN Len(sorted) ELSE n].minutes
RoundUpToBand(used, bands) ==
    LET sorted == ByMinutes(bands)
        n == SelectInSeq(sorted, LAMBDA b : used <= b.minutes)
    IN  IF sorted = <<>> THEN used ELSE sorted[IF n = 0 THEN Len(sorted) ELSE n].minutes

\* findBand(...)?.priceMinor ?? 0
PriceOf(minutes, bands) ==
    IF \E b \in bands : b.minutes = minutes
    THEN (CHOOSE b \in bands : b.minutes = minutes).price ELSE 0

Calculate(paidFor, used, bands) ==
    LET band == RoundUpToBand(used, bands)
        total == PriceOf(band, bands)
        more == total - PriceOf(paidFor, bands)
    IN  [band |-> band, total |-> total,
         surcharge |-> IF used <= paidFor \/ more < 0 THEN 0 ELSE more]

=============================================================================
