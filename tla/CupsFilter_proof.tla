-------------------------- MODULE CupsFilter_proof --------------------------
(* Proofs about CupsFilter, for pages of every height and scale and any     *)
(* number of them.                                                          *)
EXTENDS CupsFilter, TLAPS

(* Multiplication, where the solver needs to be told of it. *)
LEMMA Distribute ==
  ASSUME NEW a \in Int, NEW b \in Int, NEW c \in Int
  PROVE  (a + b) * c = a * c + b * c
  OBVIOUS

LEMMA MultiplyMonotone ==
  ASSUME NEW a \in Nat, NEW b \in Nat, NEW c \in Nat, a <= b
  PROVE  a * c <= b * c
<1> DEFINE d == b - a
<1>1. d \in Nat /\ b = a + d  OBVIOUS
<1>2. (a + d) * c = a * c + d * c  BY <1>1, Distribute
<1>3. d * c \in Nat  BY <1>1
<1>4. a * c \in Int /\ b * c \in Int  OBVIOUS
<1> QED  BY <1>1, <1>2, <1>3, <1>4

(* Division with remainder. *)
LEMMA DivMod ==
  ASSUME NEW a \in Nat, NEW p \in Nat \ {0}
  PROVE  /\ a \div p \in Nat /\ a % p \in 0 .. p - 1
         /\ a = (a \div p) * p + (a % p)
  OBVIOUS

LEMMA DivUnique ==
  ASSUME NEW p \in Nat \ {0}, NEW q \in Nat, NEW r \in 0 .. p - 1
  PROVE  (q * p + r) \div p = q
  OBVIOUS

LEMMA DivBelow ==
  ASSUME NEW a \in Nat, NEW b \in Nat, NEW p \in Nat \ {0}, a < b * p
  PROVE  a \div p < b
<1> DEFINE q == a \div p
<1>1. q \in Nat /\ q * p <= a  BY DivMod
<1>2. CASE b <= q
  <2>1. b * p <= q * p  BY <1>1, <1>2, MultiplyMonotone
  <2>2. b * p \in Nat /\ q * p \in Nat  BY <1>1
  <2> QED  BY <1>1, <2>1, <2>2
<1> QED  BY <1>1, <1>2

-----------------------------------------------------------------------------
(* The scale: errline and errval are the quotient and the remainder of the  *)
(* line of paper, scaled.                                                   *)
ScaleInv ==
  pc = "print" =>
    /\ v.printed \in Nat \ {0}
    /\ y <= v.printed
    /\ errval < v.printed
    /\ errline * v.printed + errval = y * adjusted_height
    /\ errlast <= errline /\ -1 <= errlast

(* Image_get_row is called for a line that is not in memory. *)
CallInv == tmp_image_status # "none" => LineWanted

(* Where the stream stands. *)
StreamInv ==
  /\ ras.read <= ras.there
  /\ pc = "header" => ras.read = ras.there /\ ras.page = page
  /\ pc \in {"page", "print", "printed"} =>
       /\ v \in Headers
       /\ row <= v.cupsHeight
       /\ ras.page = page + 1
       /\ ras.read = Lesser(row, ras.there)
       /\ ras.there <= v.cupsHeight
       /\ ~ras.broken => ras.there = v.cupsHeight
  /\ pc = "page" => row = 0

(* What is on the paper of a page that is whole. *)
SheetInv ==
  pc \in {"print", "printed"} =>
    /\ Len(sheet) = y
    /\ ~ras.broken => \A k \in 1 .. Len(sheet) : sheet[k] = <<page + 1, ImageLine(k - 1)>>

(* What is in memory, and that nothing that the driver will ask for has     *)
(* been passed.                                                             *)
MemoryInv ==
  pc = "print" /\ ~ras.broken =>
    /\ errlast # -1 =>
         in_data = <<page + 1, IF Flipped THEN adjusted_height - errlast - 1 ELSE errlast>>
    /\ ~Flipped => row = errlast + 1
    /\ Flipped => /\ Len(buf) <= adjusted_height
                  /\ row = Len(buf)
                  /\ \A k \in 1 .. Len(buf) : buf[k] = <<page + 1, k - 1>>

(* The printer was started with the first page, unless that failed.         *)
PrinterInv ==
  /\ pc \in {"print", "printed"} => printer = "started"
  /\ pc \in {"header", "page"} /\ initialized_job => printer = "started"

(* Every line in memory was read from the stream, and before the signal if  *)
(* it may still be printed, but for the line whose call was under way.      *)
Position == <<ras.page, ras.read>>

AllBefore(lines, position) == \A k \in 1 .. Len(lines) : Before(lines[k], position)

Heeded(line) == Before(line, readBefore) \/ line = underWay

AllHeeded(lines) == \A k \in 1 .. Len(lines) : Heeded(lines[k])

ReadInv ==
  /\ Before(in_data, Position)
  /\ AllBefore(buf, Position)
  /\ AllBefore(sheet, Position)
  /\ tmp_image_status = "abort" => cancelled
  /\ cancelled => AllHeeded(sheet)
  /\ cancelled /\ pc = "print" => Heeded(in_data) /\ AllHeeded(buf)
  /\ cancelled /\ tmp_image_status = "ok" => underWay = LineRead(LinesUpTo(Asked), NoLine)

-----------------------------------------------------------------------------
(* The page that is printed, in numbers. *)
PageType ==
  /\ v \in Headers /\ v \in HeaderType
  /\ v.cupsHeight \in Nat \ {0} /\ v.printed \in Nat
  /\ v.printed # 0 => adjusted_height \in Nat \ {0} /\ adjusted_height <= v.cupsHeight

LEMMA PageTyped == ASSUME v \in Headers PROVE PageType
  BY FilterAssumption DEF PageType, HeaderType, adjusted_height, Lesser

(* Image_get_row stays within the page and gets where it was asked to. *)
LEMMA LinesUpToBounds ==
  ASSUME PageType, row \in Nat, row <= v.cupsHeight, NEW r \in Nat
  PROVE  /\ LinesUpTo(r) \in Nat
         /\ row + LinesUpTo(r) <= v.cupsHeight
         /\ row <= r /\ r < v.cupsHeight => row + LinesUpTo(r) = r + 1
  BY DEF PageType, LinesUpTo, Lesser

RasType == [page : Nat, read : Nat, there : Nat, broken : BOOLEAN]

LEMMA ReadPixelsTyped ==
  ASSUME ras \in RasType, row \in Nat, NEW n \in Nat, ReadPixels(n)
  PROVE  /\ ras' \in RasType /\ row' = row + n
         /\ ras'.page = ras.page /\ ras'.there = ras.there /\ ras'.broken = ras.broken
         /\ ras'.read = Lesser(ras.read + n, ras.there)
  BY DEF RasType, ReadPixels, Lesser

LEMMA LineReadTyped ==
  ASSUME ras \in RasType, NEW n \in Nat, NEW data \in Lines
  PROVE  LineRead(n, data) \in Lines
  BY DEF RasType, LineRead, Lesser, Lines

(* The error carries at most one line. *)
LEMMA NextLineTyped ==
  ASSUME PageType, v.printed # 0, y \in Nat, errline \in Nat, errval \in Nat,
         errval < v.printed, NextLine
  PROVE  /\ y' = y + 1
         /\ errline' \in Nat /\ errline <= errline'
         /\ errval' \in Nat /\ errval' < v.printed
         /\ errline' * v.printed + errval' = errline * v.printed + errval + adjusted_height
<1> DEFINE H == adjusted_height
           P == v.printed
           d == H \div P
           m == H % P
           e == errval + m
<1>1. H \in Nat /\ P \in Nat \ {0}  BY DEF PageType
<1>2. d \in Nat /\ m \in 0 .. P - 1 /\ H = d * P + m  BY <1>1, DivMod
<1>3. /\ y' = y + 1
      /\ errval' = IF e >= P THEN e - P ELSE e
      /\ errline' = errline + d + (IF e >= P THEN 1 ELSE 0)
  BY DEF NextLine, Carries
<1> HIDE DEF d, m
<1>4. /\ errline' \in Nat /\ errline <= errline' /\ errval' \in Nat /\ errval' < P
  BY <1>1, <1>2, <1>3
<1>5. CASE e >= P
  <2>1. (errline + d + 1) * P = (errline + d) * P + 1 * P
    BY <1>1, <1>2, Distribute
  <2>2. (errline + d) * P = errline * P + d * P
    BY <1>1, <1>2, Distribute
  <2> QED  BY <1>1, <1>2, <1>3, <1>4, <1>5, <2>1, <2>2
<1>6. CASE ~(e >= P)
  <2>1. (errline + d) * P = errline * P + d * P
    BY <1>1, <1>2, Distribute
  <2> QED  BY <1>1, <1>2, <1>3, <1>4, <1>6, <2>1
<1> QED  BY <1>3, <1>4, <1>5, <1>6

(* The line the driver asks for is one of the image, and the one that the   *)
(* line of paper falls on.                                                  *)
LEMMA RowInImage ==
  ASSUME TypeOK, PageType, ScaleInv, Printing
  PROVE  /\ errline < adjusted_height
         /\ errline = (y * adjusted_height) \div v.printed
<1> DEFINE H == adjusted_height
           P == v.printed
<1>1. /\ H \in Nat \ {0} /\ P \in Nat \ {0} /\ y \in Nat /\ y < P /\ errline \in Nat
      /\ errval \in 0 .. P - 1
      /\ errline * P + errval = y * H
  BY DEF PageType, ScaleInv, Printing, TypeOK
<1> HIDE DEF H, P
<1>2. (errline * P + errval) \div P = errline
  BY <1>1, DivUnique
<1>3. y * H < H * P
  <2>1. (y + 1) * H <= P * H  BY <1>1, MultiplyMonotone
  <2>2. (y + 1) * H = y * H + 1 * H  BY <1>1, Distribute
  <2>3. P * H = H * P /\ y * H \in Nat  BY <1>1
  <2> QED  BY <1>1, <2>1, <2>2, <2>3
<1>4. (y * H) \div P < H  BY <1>1, <1>3, DivBelow
<1> QED  BY <1>1, <1>2, <1>4 DEF H, P

TakesHeader(h, there) ==
  /\ ras' = [page |-> ras.page + 1, read |-> 0, there |-> there,
             broken |-> there < h.cupsHeight]
  /\ v' = h

-----------------------------------------------------------------------------
LEMMA TypeOKNext == TypeOK /\ ScaleInv /\ CallInv /\ [Next]_vars => TypeOK'
<1> SUFFICES ASSUME TypeOK, ScaleInv, CallInv, [Next]_vars PROVE TypeOK'
  OBVIOUS
<1> USE DEF TypeOK
<1>0. /\ v # NULL => PageType
      /\ ras \in RasType
  BY PageTyped DEF RasType
<1>p. Printing => /\ PageType /\ v.printed # 0 /\ errval < v.printed
                  /\ row <= v.cupsHeight /\ v \in Headers
  BY <1>0 DEF Printing, PageType
<1>g. GiveUp /\ Printing => /\ status' = 2 /\ pc' = "printed" /\ sheet' = sheet /\ y' = y
                            /\ errval' = errval /\ errline' = errline
  BY DEF GiveUp
<1>l. ASSUME NEW line \in Lines, PutLine(line), Printing
      PROVE  /\ sheet' \in Seq(Lines) /\ pc' = "print" /\ status' = status
             /\ y' \in Nat /\ errline' \in Nat /\ errval' \in Nat /\ errval' < v.printed
  BY <1>l, <1>p, NextLineTyped DEF PutLine, Printing
<1>1. CASE NextHeader
  <2>1. PICK h \in Headers : \E there \in 0 .. h.cupsHeight : TakesHeader(h, there)
    BY <1>1 DEF NextHeader, TakesHeader
  <2>2. PICK there \in 0 .. h.cupsHeight : TakesHeader(h, there)  BY <2>1
  <2>3. h \in HeaderType /\ h # NULL /\ h.cupsHeight \in Nat  BY FilterAssumption DEF HeaderType
  <2> QED
    BY <1>1, <2>2, <2>3 DEF NextHeader, TakesHeader, main, scale, paper, signal
<1>2. CASE NoMoreHeaders
  BY <1>2 DEF NoMoreHeaders, stream, main, scale, paper, signal
<1>3. CASE StartPage
  <2>1. CASE ~Verifies
    BY <1>3, <2>1 DEF StartPage, VerifyFails, stream, scale, paper, signal
  <2>2. CASE Verifies
    BY <1>3, <2>2, <1>0 DEF StartPage, stream, signal, PageType, Lines
  <2> QED  BY <2>1, <2>2
<1>4. CASE DuplicateLine
  <2>0. Printing  BY <1>4 DEF DuplicateLine
  <2>1. /\ v' = v /\ page' = page /\ ras' = ras /\ row' = row
        /\ initialized_job' = initialized_job /\ aborted' = aborted
        /\ printer' = printer /\ buf' = buf /\ in_data' = in_data
        /\ cancelled' = cancelled /\ readBefore' = readBefore /\ underWay' = underWay
        /\ tmp_image_status' = tmp_image_status /\ errlast' = errlast
    BY <1>4 DEF DuplicateLine, stream, main, signal
  <2>2. PutLine(in_data)  BY <1>4 DEF DuplicateLine
  <2>3. /\ sheet' \in Seq(Lines) /\ pc' = "print" /\ status' = status
        /\ y' \in Nat /\ errline' \in Nat /\ errval' \in Nat /\ errval' < v.printed
    BY <2>0, <2>2, <1>l
  <2>4. v # NULL /\ row <= v.cupsHeight  BY <2>0, <1>p DEF Printing
  <2> QED  BY SMTT(90), <2>1, <2>3, <2>4
<1>5. CASE GetRow
  BY <1>5 DEF GetRow, LineWanted, Printing, stream, main, scale, paper, signal
<1>13. CASE ReadRow
  <2> DEFINE n == LinesUpTo(errline)
  <2>1. Printing /\ v # NULL /\ n \in Nat /\ row + n <= v.cupsHeight
    BY <1>13, <1>p, LinesUpToBounds DEF ReadRow, LineWanted, Printing
  <2>2. /\ ras' \in RasType /\ row' = row + n /\ in_data' \in Lines
    BY <1>13, <2>1, <1>0, ReadPixelsTyped, LineReadTyped DEF ReadRow, LineWanted, Asked
  <2>3. ras' \in [page : Nat, read : Nat, there : Nat, broken : BOOLEAN]  BY <2>2 DEF RasType
  <2>4. /\ v' = v /\ page' = page /\ initialized_job' = initialized_job
        /\ aborted' = aborted /\ printer' = printer /\ buf' = buf
        /\ cancelled' = cancelled /\ readBefore' = readBefore /\ underWay' = underWay
        /\ tmp_image_status' = "none" /\ errlast' = errline
    BY <1>13 DEF ReadRow, main, signal
  <2>5. CASE tmp_image_status = "abort"
    <3>1. GiveUp  BY <1>13, <2>5 DEF ReadRow
    <3> QED  BY SMTT(90), <1>g, <2>1, <2>2, <2>3, <2>4, <3>1
  <2>6. CASE tmp_image_status # "abort"
    <3>1. PutLine(in_data')  BY <1>13, <2>6 DEF ReadRow
    <3>2. /\ sheet' \in Seq(Lines) /\ pc' = "print" /\ status' = status
          /\ y' \in Nat /\ errline' \in Nat /\ errval' \in Nat /\ errval' < v.printed
      BY <3>1, <2>1, <2>2, <1>l
    <3> QED  BY SMTT(90), <2>1, <2>2, <2>3, <2>4, <3>2
  <2> QED  BY <2>5, <2>6
<1>6. CASE FillBuffer
  <2> DEFINE n == LinesUpTo(Len(buf))
  <2>0. Len(buf) \in Nat  OBVIOUS
  <2>1. Printing /\ v # NULL /\ n \in Nat /\ row + n <= v.cupsHeight
    BY <1>6, <1>p, <2>0, LinesUpToBounds DEF FillBuffer, LineWanted, Printing
  <2>2. /\ ras' \in RasType /\ row' = row + n /\ LineRead(n, NoLine) \in Lines
    BY <1>6, <2>1, <1>0, ReadPixelsTyped, LineReadTyped DEF FillBuffer, LineWanted, Asked, Lines
  <2>3. buf' \in Seq(Lines)  BY <1>6, <2>2 DEF FillBuffer, LineWanted, Asked
  <2>4. ras' \in [page : Nat, read : Nat, there : Nat, broken : BOOLEAN]  BY <2>2 DEF RasType
  <2>5. /\ v' = v /\ page' = page /\ initialized_job' = initialized_job
        /\ aborted' = aborted /\ printer' = printer /\ in_data' = in_data
        /\ cancelled' = cancelled /\ readBefore' = readBefore /\ underWay' = underWay
        /\ tmp_image_status' = "none"
    BY <1>6 DEF FillBuffer, main, signal
  <2>6. CASE FillAborts
    <3>1. GiveUp /\ errlast' = errline  BY <1>6, <2>6 DEF FillBuffer
    <3> QED  BY SMTT(90), <1>g, <2>1, <2>2, <2>3, <2>4, <2>5, <3>1
  <2>7. CASE ~FillAborts
    <3>1. /\ pc' = pc /\ status' = status /\ sheet' = sheet /\ y' = y
          /\ errline' = errline /\ errval' = errval /\ errlast' = errlast
      BY <1>6, <2>7 DEF FillBuffer, scale
    <3>2. errval < v.printed  BY <2>1, <1>p
    <3> QED  BY SMTT(90), <2>1, <2>2, <2>3, <2>4, <2>5, <3>1, <3>2
  <2> QED  BY <2>6, <2>7
<1>7. CASE GetBufferedRow
  <2>0. Printing  BY <1>7 DEF GetBufferedRow
  <2>1. adjusted_height - errline \in 1 .. Len(buf)
    <3>1. errline < adjusted_height  BY <2>0, <1>p, RowInImage
    <3>2. adjusted_height \in Nat  BY <2>0, <1>p DEF PageType
    <3> QED  BY <1>7, <3>1, <3>2 DEF GetBufferedRow, Buffered
  <2>2. in_data' \in Lines  BY <1>7, <2>1 DEF GetBufferedRow
  <2>3. /\ v' = v /\ page' = page /\ ras' = ras /\ row' = row
        /\ initialized_job' = initialized_job /\ aborted' = aborted
        /\ printer' = printer /\ buf' = buf
        /\ cancelled' = cancelled /\ readBefore' = readBefore /\ underWay' = underWay
        /\ tmp_image_status' = tmp_image_status /\ errlast' = errline
    BY <1>7 DEF GetBufferedRow, stream, main, signal
  <2>4. PutLine(in_data')  BY <1>7 DEF GetBufferedRow
  <2>5. /\ sheet' \in Seq(Lines) /\ pc' = "print" /\ status' = status
        /\ y' \in Nat /\ errline' \in Nat /\ errval' \in Nat /\ errval' < v.printed
    BY <2>0, <2>2, <2>4, <1>l
  <2>6. v # NULL /\ row <= v.cupsHeight  BY <2>0, <1>p DEF Printing
  <2> QED  BY SMTT(90), <2>2, <2>3, <2>5, <2>6
<1>8. CASE PageIsPrinted
  <2>1. tmp_image_status = "none"
    <3>1. y >= v.printed  BY <1>8 DEF PageIsPrinted
    <3>2. v.printed \in Nat  BY <1>8, <1>0 DEF PageIsPrinted, PageType
    <3>3. ~Printing  BY <3>1, <3>2 DEF Printing
    <3> QED  BY <3>3 DEF CallInv, LineWanted
  <2> QED  BY <1>8, <2>1 DEF PageIsPrinted, stream, main, scale, paper, signal
<1>9. CASE EndPage
  <2>1. Excess \in Nat /\ row + Excess = v.cupsHeight
    BY <1>9, <1>0 DEF EndPage, Excess, PageType
  <2>2. /\ ras' \in RasType /\ row' = row + Excess
    BY <1>9, <2>1, <1>0, ReadPixelsTyped DEF EndPage
  <2> QED  BY <1>9, <2>1, <2>2 DEF EndPage, scale, signal, RasType
<1>10. CASE EndJob
  BY <1>10 DEF EndJob, stream, scale, paper, signal
<1>11. CASE cancel_job
  <2>1. underWay' \in Lines
    <3>1. CASE tmp_image_status = "none"  BY <1>11, <3>1 DEF cancel_job, Lines
    <3>2. CASE tmp_image_status # "none"
      <4>1. PageType /\ row <= v.cupsHeight  BY <3>2, <1>0
      <4>2. Asked \in Nat  BY DEF Asked
      <4>3. LinesUpTo(Asked) \in Nat  BY <4>1, <4>2, LinesUpToBounds
      <4>4. LineRead(LinesUpTo(Asked), NoLine) \in Lines
        BY <4>3, <1>0, LineReadTyped DEF Lines
      <4> QED  BY <1>11, <3>2, <4>4 DEF cancel_job
    <3> QED  BY <3>1, <3>2
  <2> QED  BY <1>11, <2>1, <1>0 DEF cancel_job, stream, main, scale, paper, RasType
<1>12. CASE Exited \/ UNCHANGED vars
  BY <1>12 DEF Exited, vars, stream, main, scale, paper, signal
<1> QED
  BY <1>1, <1>2, <1>3, <1>4, <1>5, <1>6, <1>7, <1>8, <1>9, <1>10, <1>11, <1>12, <1>13 DEF Next

LEMMA CallNext == TypeOK /\ CallInv /\ [Next]_vars => CallInv'
<1> SUFFICES ASSUME TypeOK, CallInv, [Next]_vars PROVE CallInv'
  OBVIOUS
<1>1. CASE GetRow \/ cancel_job \/ Exited \/ UNCHANGED vars
  <2>1. /\ UNCHANGED <<pc, v, page, y, errline, errlast, buf>>
        /\ tmp_image_status' # "none" => LineWanted
    BY <1>1 DEF GetRow, cancel_job, Exited, vars, main, scale, paper, CallInv
  <2> QED
    BY <2>1 DEF CallInv, LineWanted, Printing, Flipped, Buffered, adjusted_height
<1>2. CASE ReadRow \/ FillBuffer
  BY <1>2 DEF ReadRow, FillBuffer, CallInv
<1>3. CASE DuplicateLine \/ GetBufferedRow
  BY <1>3 DEF DuplicateLine, GetBufferedRow, LineWanted, CallInv
<1>4. CASE PageIsPrinted
  <2>1. y >= v.printed /\ v \in Headers  BY <1>4 DEF PageIsPrinted, TypeOK
  <2>2. ~Printing  BY <2>1, PageTyped DEF Printing, PageType, TypeOK
  <2> QED  BY <1>4, <2>2 DEF PageIsPrinted, LineWanted, CallInv
<1>5. CASE NextHeader \/ NoMoreHeaders \/ StartPage \/ EndPage \/ EndJob
  BY <1>5 DEF NextHeader, NoMoreHeaders, StartPage, EndPage, EndJob, TypeOK, CallInv
<1> QED  BY <1>1, <1>2, <1>3, <1>4, <1>5 DEF Next

LEMMA PutLineKeepsScale ==
  ASSUME TypeOK, PageType, ScaleInv, Printing, NEW line, PutLine(line), v' = v,
         errlast' = errlast \/ errlast' = errline
  PROVE  ScaleInv'
<1> DEFINE H == adjusted_height
           P == v.printed
<1>1. /\ H \in Nat \ {0} /\ P \in Nat \ {0} /\ y \in Nat /\ y < P /\ errline \in Nat
      /\ errval \in Nat /\ errval < P /\ errlast \in Int
      /\ errline * P + errval = y * H /\ errlast <= errline /\ -1 <= errlast
  BY DEF PageType, ScaleInv, Printing, TypeOK
<1>2. /\ y' = y + 1 /\ errline' \in Nat /\ errline <= errline'
      /\ errval' \in Nat /\ errval' < P
      /\ errline' * P + errval' = errline * P + errval + H
  BY <1>1, NextLineTyped DEF PutLine
<1>3. H' = H /\ P' = P  BY DEF adjusted_height
<1> HIDE DEF H, P
<1>4. (y + 1) * H = y * H + 1 * H  BY <1>1, Distribute
<1>5. y * H \in Nat /\ 1 * H = H  BY <1>1
<1>6. errline' * P + errval' = y' * H  BY <1>1, <1>2, <1>4, <1>5
<1>7. y' <= P /\ errlast' <= errline' /\ -1 <= errlast'  BY <1>1, <1>2
<1> QED  BY <1>1, <1>2, <1>3, <1>6, <1>7 DEF ScaleInv, H, P

LEMMA ScaleNext == TypeOK /\ ScaleInv /\ [Next]_vars => ScaleInv'
<1> SUFFICES ASSUME TypeOK, ScaleInv, [Next]_vars PROVE ScaleInv'
  OBVIOUS
<1>0. v # NULL => PageType  BY PageTyped DEF TypeOK
<1>p. Printing => PageType  BY <1>0 DEF Printing, TypeOK
<1>1. CASE StartPage
  <2>1. CASE pc' = "print"
    <3>1. /\ v' = v /\ v.printed # 0 /\ y' = 0 /\ errline' = 0 /\ errval' = 0
          /\ errlast' = -1
      BY <1>1, <2>1 DEF StartPage, VerifyFails
    <3>2. PageType  BY <1>0, <1>1 DEF StartPage, TypeOK
    <3>3. adjusted_height' \in Nat  BY <3>1, <3>2 DEF PageType, adjusted_height
    <3> QED  BY <3>1, <3>2, <3>3 DEF ScaleInv, PageType
  <2> QED  BY <2>1 DEF ScaleInv
<1>2. CASE DuplicateLine
  BY <1>2, <1>p, PutLineKeepsScale DEF DuplicateLine
<1>3. CASE ReadRow
  <2>1. CASE tmp_image_status = "abort"  BY <1>3, <2>1 DEF ReadRow, GiveUp, ScaleInv
  <2>2. CASE tmp_image_status # "abort"
    BY <1>3, <2>2, <1>p, PutLineKeepsScale DEF ReadRow, LineWanted
  <2> QED  BY <2>1, <2>2
<1>4. CASE FillBuffer
  <2>1. CASE FillAborts  BY <1>4, <2>1 DEF FillBuffer, GiveUp, ScaleInv
  <2>2. CASE ~FillAborts
    BY <1>4, <2>2 DEF FillBuffer, scale, ScaleInv, adjusted_height
  <2> QED  BY <2>1, <2>2
<1>5. CASE GetBufferedRow
  BY <1>5, <1>p, PutLineKeepsScale DEF GetBufferedRow
<1>6. CASE NextHeader \/ NoMoreHeaders \/ PageIsPrinted \/ EndPage \/ EndJob
  BY <1>6 DEF NextHeader, NoMoreHeaders, PageIsPrinted, EndPage, EndJob, ScaleInv
<1>7. CASE GetRow \/ cancel_job \/ Exited \/ UNCHANGED vars
  BY <1>7 DEF GetRow, cancel_job, Exited, vars, scale, ScaleInv, adjusted_height
<1> QED
  BY <1>1, <1>2, <1>3, <1>4, <1>5, <1>6, <1>7 DEF Next

-----------------------------------------------------------------------------
(* What each step does to the stream: it takes a header, reads lines of the *)
(* page, or leaves it alone.                                                *)
StreamStep ==
  \/ \E h \in Headers : \E there \in 0 .. h.cupsHeight :
       /\ pc = "header" /\ pc' = "page" /\ TakesHeader(h, there)
       /\ row' = 0 /\ page' = page
  \/ \E n \in Nat :
       /\ ReadPixels(n) /\ row + n <= v.cupsHeight
       /\ pc = "print" /\ pc' \in {"print", "printed"}
       /\ v' = v /\ page' = page
  \/ /\ pc = "printed" /\ pc' = "header"
     /\ \E n \in Nat : ReadPixels(n) /\ row + n = v.cupsHeight
     /\ v' = v /\ page' = page + 1
  \/ /\ ras' = ras /\ row' = row /\ v' = v /\ page' = page
     /\ pc' \in {"header", "page", "print", "printed"} =>
          \/ pc' = pc
          \/ pc = "page" /\ pc' = "print"
          \/ pc = "print" /\ pc' = "printed"

LEMMA EveryStreamStep == TypeOK /\ [Next]_vars => StreamStep
<1> SUFFICES ASSUME TypeOK, [Next]_vars PROVE StreamStep
  OBVIOUS
<1> USE DEF TypeOK, StreamStep
<1>0. v # NULL => PageType  BY PageTyped
<1>1. CASE NextHeader  BY <1>1 DEF NextHeader, TakesHeader, main
<1>2. CASE StartPage  BY <1>2 DEF StartPage, VerifyFails, stream
<1>3. CASE ReadRow
  <2>1. /\ LinesUpTo(Asked) \in Nat /\ row + LinesUpTo(Asked) <= v.cupsHeight
    BY <1>3, <1>0, LinesUpToBounds DEF ReadRow, LineWanted, Printing, Asked
  <2> QED  BY <1>3, <2>1 DEF ReadRow, LineWanted, GiveUp, PutLine, Printing, main
<1>4. CASE FillBuffer
  <2>0. Len(buf) \in Nat  OBVIOUS
  <2>1. /\ LinesUpTo(Asked) \in Nat /\ row + LinesUpTo(Asked) <= v.cupsHeight
    BY <1>4, <1>0, <2>0, LinesUpToBounds DEF FillBuffer, LineWanted, Printing, Asked
  <2> QED  BY <1>4, <2>1 DEF FillBuffer, LineWanted, GiveUp, Printing, main
<1>5. CASE EndPage
  <2>1. Excess \in Nat /\ row + Excess = v.cupsHeight
    BY <1>5, <1>0 DEF EndPage, Excess, PageType
  <2> QED  BY <1>5, <2>1 DEF EndPage
<1>6. CASE DuplicateLine \/ GetBufferedRow
  BY <1>6 DEF DuplicateLine, GetBufferedRow, PutLine, stream, main
<1>7. CASE NoMoreHeaders \/ PageIsPrinted \/ EndJob \/ GetRow \/ cancel_job \/ Exited
           \/ UNCHANGED vars
  BY <1>7
  DEF NoMoreHeaders, PageIsPrinted, EndJob, GetRow, cancel_job, Exited, vars, stream, main
<1> QED
  BY <1>1, <1>2, <1>3, <1>4, <1>5, <1>6, <1>7 DEF Next

LEMMA StreamNext == TypeOK /\ StreamInv /\ [Next]_vars => StreamInv'
<1> SUFFICES ASSUME TypeOK, StreamInv, [Next]_vars PROVE StreamInv'
  OBVIOUS
<1> USE DEF StreamInv
<1>0. /\ ras \in RasType /\ row \in Nat /\ page \in Nat
      /\ \A h \in Headers : h \in HeaderType /\ h.cupsHeight \in Nat
  BY FilterAssumption DEF TypeOK, RasType, HeaderType
<1>1. ASSUME NEW h \in Headers, NEW there \in 0 .. h.cupsHeight, pc = "header", pc' = "page",
             TakesHeader(h, there), row' = 0, page' = page
      PROVE  StreamInv'
  <2>1. /\ ras'.page = page + 1 /\ ras'.read = 0 /\ ras'.there = there /\ v' = h
        /\ ~ras'.broken => ~(there < h.cupsHeight)
    BY <1>1 DEF TakesHeader
  <2>2. there \in Nat /\ h.cupsHeight \in Nat /\ there <= h.cupsHeight  BY <1>0
  <2>3. ~ras'.broken => there = h.cupsHeight  BY <2>1, <2>2
  <2>4. Lesser(0, there) = 0  BY <2>2 DEF Lesser
  <2> QED  BY <1>1, <2>1, <2>2, <2>3, <2>4
<1>2. ASSUME NEW n \in Nat, ReadPixels(n), row + n <= v.cupsHeight, pc = "print",
             pc' \in {"print", "printed"}, v' = v, page' = page
      PROVE  StreamInv'
  <2>1. /\ row' = row + n /\ ras'.page = ras.page /\ ras'.there = ras.there
        /\ ras'.broken = ras.broken /\ ras'.read = Lesser(ras.read + n, ras.there)
    BY <1>0, <1>2, ReadPixelsTyped
  <2>2. Lesser(Lesser(row, ras.there) + n, ras.there) = Lesser(row + n, ras.there)
    BY <1>0 DEF Lesser, RasType
  <2>3. Lesser(row + n, ras.there) <= ras.there  BY <1>0 DEF Lesser, RasType
  <2> QED  BY <1>2, <2>1, <2>2, <2>3
<1>3. ASSUME NEW n \in Nat, ReadPixels(n), row + n = v.cupsHeight, pc = "printed",
             pc' = "header", v' = v, page' = page + 1
      PROVE  StreamInv'
  <2>1. /\ ras'.page = ras.page /\ ras'.there = ras.there
        /\ ras'.read = Lesser(ras.read + n, ras.there)
    BY <1>0, <1>3, ReadPixelsTyped
  <2>2. Lesser(Lesser(row, ras.there) + n, ras.there) = ras.there
    BY <1>0, <1>3 DEF Lesser, RasType
  <2> QED  BY <1>0, <1>3, <2>1, <2>2 DEF RasType
<1>4. ASSUME ras' = ras, row' = row, v' = v, page' = page,
             pc' \in {"header", "page", "print", "printed"} =>
               \/ pc' = pc
               \/ pc = "page" /\ pc' = "print"
               \/ pc = "print" /\ pc' = "printed"
      PROVE  StreamInv'
  BY <1>4
<1> QED  BY <1>1, <1>2, <1>3, <1>4, EveryStreamStep DEF StreamStep

(* Only the first page that is verified starts the printer, and no page     *)
(* follows one that is not.                                                 *)
LEMMA PrinterNext == PrinterInv /\ [Next]_vars => PrinterInv'
<1> SUFFICES ASSUME PrinterInv, [Next]_vars PROVE PrinterInv'
  OBVIOUS
<1> USE DEF PrinterInv
<1>1. CASE StartPage  BY <1>1 DEF StartPage, VerifyFails
<1>2. CASE NextHeader \/ NoMoreHeaders \/ PageIsPrinted \/ EndPage \/ EndJob
  BY <1>2 DEF NextHeader, NoMoreHeaders, PageIsPrinted, EndPage, EndJob, main
<1>3. CASE DuplicateLine \/ GetRow \/ ReadRow \/ FillBuffer \/ GetBufferedRow
  BY <1>3 DEF DuplicateLine, GetRow, ReadRow, FillBuffer, GetBufferedRow, PutLine, GiveUp,
              LineWanted, Printing, main
<1>4. CASE cancel_job \/ Exited \/ UNCHANGED vars
  BY <1>4 DEF cancel_job, Exited, vars, main
<1> QED  BY <1>1, <1>2, <1>3, <1>4 DEF Next

-----------------------------------------------------------------------------
(* On a whole page the line that is asked for is the one that is read.      *)
LEMMA LineReadWhole ==
  ASSUME TypeOK, StreamInv, PageType, pc = "print", ~ras.broken,
         NEW r \in Nat, row <= r, r < v.cupsHeight, NEW data
  PROVE  LineRead(LinesUpTo(r), data) = <<page + 1, r>>
<1>1. /\ row \in Nat /\ ras.page = page + 1 /\ ras.there = v.cupsHeight
      /\ ras.read = row /\ v.cupsHeight \in Nat
  BY DEF TypeOK, StreamInv, PageType, Lesser
<1>2. LinesUpTo(r) = r + 1 - row  BY <1>1 DEF LinesUpTo, Lesser
<1>3. Lesser(ras.read + (r + 1 - row), ras.there) - 1 = r  BY <1>1 DEF Lesser
<1> QED  BY <1>1, <1>2, <1>3 DEF LineRead

LEMMA PutLineKeepsSheet ==
  ASSUME TypeOK, SheetInv, pc = "print", NEW line, PutLine(line), v' = v, page' = page,
         ras'.broken = ras.broken, ~ras.broken => line = <<page + 1, ImageLine(y)>>
  PROVE  SheetInv'
<1>1. /\ sheet \in Seq(Lines) /\ y \in Nat /\ Len(sheet) = y
      /\ sheet' = Append(sheet, line) /\ y' = y + 1
  BY DEF TypeOK, SheetInv, PutLine, NextLine
<1>2. \A k : ImageLine(k)' = ImageLine(k)
  BY DEF ImageLine, Flipped, adjusted_height
<1>3. Len(sheet') = y' /\ \A k \in 1 .. Len(sheet') : sheet'[k] = IF k <= y THEN sheet[k] ELSE line
  BY <1>1
<1>4. ASSUME ~ras.broken, NEW k \in 1 .. Len(sheet')
      PROVE  sheet'[k] = <<page' + 1, ImageLine(k - 1)'>>
  <2>1. CASE k <= y  BY <1>1, <1>2, <1>3, <1>4, <2>1 DEF SheetInv
  <2>2. CASE ~(k <= y)
    <3>1. k = y + 1  BY <1>1, <1>4, <2>2
    <3> QED  BY <1>1, <1>2, <1>3, <1>4, <2>2, <3>1
  <2> QED  BY <2>1, <2>2
<1> QED  BY <1>3, <1>4 DEF SheetInv

(* Where the driver is on the page. *)
LEMMA OnPage ==
  ASSUME TypeOK, ScaleInv, StreamInv, Printing
  PROVE  /\ PageType /\ v.printed # 0 /\ pc = "print" /\ row \in Nat /\ row <= v.cupsHeight
         /\ errline \in Nat /\ errline < adjusted_height
         /\ errline < v.cupsHeight
         /\ errlast \in Int /\ errlast <= errline
         /\ ImageLine(y) = IF Flipped THEN adjusted_height - errline - 1 ELSE errline
<1>1. pc = "print" /\ v \in Headers  BY DEF Printing, StreamInv
<1>p. v.printed # 0  BY <1>1 DEF ScaleInv
<1>2. PageType  BY <1>1, PageTyped
<1>3. errline < adjusted_height /\ errline = (y * adjusted_height) \div v.printed
  BY <1>2, RowInImage
<1>4. adjusted_height \in Nat /\ adjusted_height <= v.cupsHeight /\ v.cupsHeight \in Nat
  BY <1>2, <1>p DEF PageType
<1>5. /\ row \in Nat /\ row <= v.cupsHeight /\ errline \in Nat /\ errlast \in Int
      /\ errlast <= errline
  BY <1>1 DEF TypeOK, ScaleInv
<1>6. ImageLine(y) = IF Flipped THEN adjusted_height - errline - 1 ELSE errline
  BY <1>3 DEF ImageLine
<1> QED  BY <1>1, <1>p, <1>2, <1>3, <1>4, <1>5, <1>6

LEMMA SheetNext ==
  TypeOK /\ ScaleInv /\ StreamInv /\ SheetInv /\ MemoryInv /\ [Next]_vars => SheetInv'
<1> SUFFICES ASSUME TypeOK, ScaleInv, StreamInv, SheetInv, MemoryInv, [Next]_vars
             PROVE  SheetInv'
  OBVIOUS
<1>k. ASSUME sheet' = sheet, y' = y, v' = v, page' = page, ras'.broken = ras.broken,
             pc' \in {"print", "printed"} => pc \in {"print", "printed"}
      PROVE  SheetInv'
  <2>1. \A k : ImageLine(k)' = ImageLine(k)
    BY <1>k DEF ImageLine, Flipped, adjusted_height
  <2> QED  BY <1>k, <2>1 DEF SheetInv
<1>r. ASSUME NEW n \in Nat, ReadPixels(n) PROVE ras'.broken = ras.broken
  BY <1>r, ReadPixelsTyped DEF TypeOK, RasType
<1>1. CASE StartPage
  <2>1. pc' \in {"print", "printed"} => sheet' = <<>> /\ y' = 0
    BY <1>1 DEF StartPage, VerifyFails
  <2> QED  BY <2>1 DEF SheetInv
<1>2. CASE DuplicateLine
  <2>1. /\ Printing /\ errline = errlast /\ PutLine(in_data) /\ v' = v /\ ras' = ras
        /\ page' = page
    BY <1>2 DEF DuplicateLine, stream, main
  <2>2. ~ras.broken => in_data = <<page + 1, ImageLine(y)>>
    BY <2>1, OnPage DEF MemoryInv
  <2> QED  BY <2>1, <2>2, PutLineKeepsSheet DEF Printing
<1>3. CASE ReadRow
  <2> DEFINE n == LinesUpTo(errline)
  <2>1. /\ Printing /\ ~Flipped /\ errline # errlast /\ v' = v /\ page' = page /\ ReadPixels(n)
        /\ in_data' = LineRead(n, in_data)
    BY <1>3 DEF ReadRow, LineWanted, Asked, main
  <2>2. n \in Nat  BY <2>1, OnPage, LinesUpToBounds
  <2>3. ras'.broken = ras.broken  BY <2>1, <2>2, <1>r
  <2>4. CASE tmp_image_status = "abort"
    <3>1. pc = "print" /\ sheet' = sheet /\ y' = y
      BY <1>3, <2>1, <2>4 DEF ReadRow, GiveUp, Printing
    <3> QED  BY <2>1, <2>3, <3>1, <1>k
  <2>5. CASE tmp_image_status # "abort"
    <3>1. PutLine(in_data')  BY <1>3, <2>5 DEF ReadRow
    <3>2. ASSUME ~ras.broken PROVE in_data' = <<page + 1, ImageLine(y)>>
      <4>1. row <= errline /\ errline < v.cupsHeight /\ ImageLine(y) = errline
        BY <2>1, <3>2, OnPage DEF MemoryInv
      <4> QED  BY <2>1, <3>2, <4>1, OnPage, LineReadWhole
    <3> QED  BY <2>1, <2>3, <3>1, <3>2, PutLineKeepsSheet DEF Printing
  <2> QED  BY <2>4, <2>5
<1>4. CASE FillBuffer
  <2> DEFINE n == LinesUpTo(Len(buf))
  <2>1. /\ Printing /\ v' = v /\ page' = page /\ ReadPixels(n) /\ sheet' = sheet /\ y' = y
    BY <1>4 DEF FillBuffer, LineWanted, Asked, main, GiveUp, scale
  <2>2. n \in Nat
    <3>1. Len(buf) \in Nat  BY DEF TypeOK
    <3> QED  BY <2>1, <3>1, OnPage, LinesUpToBounds
  <2> QED  BY <2>1, <2>2, <1>r, <1>k DEF Printing
<1>5. CASE GetBufferedRow
  <2>1. /\ Printing /\ Flipped /\ Buffered /\ PutLine(in_data') /\ v' = v /\ ras' = ras
        /\ page' = page /\ in_data' = buf[adjusted_height - errline]
    BY <1>5 DEF GetBufferedRow, stream, main
  <2>2. ASSUME ~ras.broken PROVE in_data' = <<page + 1, ImageLine(y)>>
    <3>1. adjusted_height \in Nat /\ errline \in Nat /\ errline < adjusted_height
      BY <2>1, OnPage DEF PageType
    <3>2. adjusted_height - errline \in 1 .. Len(buf)
      BY <2>1, <3>1 DEF Buffered
    <3> QED  BY <2>1, <2>2, <3>1, <3>2, OnPage DEF MemoryInv
  <2> QED  BY <2>1, <2>2, PutLineKeepsSheet DEF Printing
<1>6. CASE NextHeader \/ NoMoreHeaders \/ EndPage \/ EndJob
  BY <1>6 DEF NextHeader, NoMoreHeaders, EndPage, EndJob, SheetInv
<1>7. CASE PageIsPrinted \/ GetRow \/ cancel_job \/ Exited \/ UNCHANGED vars
  <2>1. /\ sheet' = sheet /\ y' = y /\ v' = v /\ page' = page /\ ras' = ras
        /\ pc' \in {"print", "printed"} => pc \in {"print", "printed"}
    BY <1>7 DEF PageIsPrinted, GetRow, cancel_job, Exited, vars, stream, main, scale, paper
  <2> QED  BY <2>1, <1>k
<1> QED
  BY <1>1, <1>2, <1>3, <1>4, <1>5, <1>6, <1>7 DEF Next

LEMMA MemoryNext ==
  TypeOK /\ ScaleInv /\ StreamInv /\ MemoryInv /\ [Next]_vars => MemoryInv'
<1> SUFFICES ASSUME TypeOK, ScaleInv, StreamInv, MemoryInv, [Next]_vars
             PROVE  MemoryInv'
  OBVIOUS
<1>f. v' = v /\ page' = page => adjusted_height' = adjusted_height /\ Flipped' = Flipped
  BY DEF adjusted_height, Flipped
<1>1. CASE StartPage
  <2>1. pc' = "print" => /\ row' = row /\ errlast' = -1 /\ buf' = <<>> /\ row = 0
                         /\ adjusted_height' \in Nat
    <3>1. v \in Headers /\ v' = v  BY <1>1 DEF StartPage, StreamInv
    <3>2. adjusted_height' = adjusted_height  BY <3>1 DEF adjusted_height
    <3>3. pc' = "print" => v.printed # 0  BY <1>1 DEF StartPage, VerifyFails
    <3>4. v.printed # 0 => adjusted_height \in Nat  BY <3>1, PageTyped DEF PageType
    <3> QED  BY <1>1, <3>2, <3>3, <3>4 DEF StartPage, VerifyFails, stream, StreamInv
  <2> QED  BY <2>1 DEF MemoryInv, PageType
<1>2. CASE DuplicateLine
  BY <1>2, <1>f DEF DuplicateLine, PutLine, Printing, stream, main, MemoryInv
<1>3. CASE ReadRow
  <2> DEFINE n == LinesUpTo(errline)
  <2>1. /\ Printing /\ ~Flipped /\ errline # errlast /\ v' = v /\ page' = page /\ ReadPixels(n)
        /\ in_data' = LineRead(n, in_data) /\ errlast' = errline
    BY <1>3 DEF ReadRow, LineWanted, Asked, main
  <2>2. ras'.broken = ras.broken
    <3>1. n \in Nat  BY <2>1, OnPage, LinesUpToBounds
    <3> QED  BY <2>1, <3>1, ReadPixelsTyped DEF TypeOK, RasType
  <2>3. ASSUME ~ras.broken
        PROVE  in_data' = <<page + 1, errline>> /\ row' = errline + 1
    <3>1. row <= errline /\ errline < v.cupsHeight
      BY <2>1, <2>3, OnPage DEF MemoryInv
    <3>2. row + n = errline + 1  BY <2>1, <3>1, OnPage, LinesUpToBounds
    <3> QED  BY <2>1, <2>3, <3>1, <3>2, OnPage, LineReadWhole DEF ReadPixels
  <2> QED  BY <2>1, <2>2, <2>3, <1>f DEF MemoryInv
<1>4. CASE FillBuffer
  <2> DEFINE n == LinesUpTo(Len(buf))
  <2>0. Len(buf) \in Nat /\ buf \in Seq(Lines)  BY DEF TypeOK
  <2>1. /\ Printing /\ Flipped /\ ~Buffered /\ v' = v /\ page' = page /\ ReadPixels(n)
        /\ buf' = Append(buf, LineRead(n, NoLine)) /\ in_data' = in_data
    BY <1>4 DEF FillBuffer, LineWanted, Asked, main
  <2>2. ras'.broken = ras.broken
    <3>1. n \in Nat  BY <2>0, <2>1, OnPage, LinesUpToBounds
    <3> QED  BY <2>1, <3>1, ReadPixelsTyped DEF TypeOK, RasType
  <2>3. CASE pc' = "print" /\ ~ras.broken
    <3>1. errlast' = errlast  BY <1>4, <2>3 DEF FillBuffer, GiveUp, scale
    <3>2. /\ Len(buf) < adjusted_height /\ row = Len(buf) /\ Len(buf) < v.cupsHeight
          /\ adjusted_height \in Nat
      BY <2>0, <2>1, <2>3, OnPage DEF MemoryInv, Buffered, PageType
    <3>3. LineRead(n, NoLine) = <<page + 1, Len(buf)>>
      BY <2>0, <2>1, <2>3, <3>2, OnPage, LineReadWhole
    <3>4. row + n = Len(buf) + 1
      <4>1. PageType /\ row \in Nat /\ row <= v.cupsHeight  BY <2>1, OnPage
      <4>2. row <= Len(buf)  BY <2>0, <3>2
      <4> QED  BY <2>0, <3>2, <4>1, <4>2, LinesUpToBounds
    <3>5. row' = Len(buf) + 1  BY <2>1, <3>4 DEF ReadPixels
    <3>6. Len(buf') = Len(buf) + 1  BY <2>0, <2>1
    <3>7. \A k \in 1 .. Len(buf') : buf'[k] = <<page + 1, k - 1>>
      <4>1. \A k \in 1 .. Len(buf) : buf[k] = <<page + 1, k - 1>>
        BY <2>1, <2>3 DEF MemoryInv, Printing
      <4>2. \A k \in 1 .. Len(buf') :
              buf'[k] = IF k <= Len(buf) THEN buf[k] ELSE <<page + 1, Len(buf)>>
        BY <2>0, <2>1, <3>3
      <4> QED  BY <2>0, <3>6, <4>1, <4>2
    <3>8. errlast # -1 => in_data = <<page + 1, adjusted_height - errlast - 1>>
      BY <2>1, <2>3 DEF MemoryInv, Printing
    <3>9. Len(buf') <= adjusted_height  BY <2>0, <3>2, <3>6
    <3> QED  BY <2>1, <3>1, <3>5, <3>6, <3>7, <3>8, <3>9, <1>f DEF MemoryInv
  <2> QED  BY <2>2, <2>3 DEF MemoryInv
<1>5. CASE GetBufferedRow
  <2>1. /\ Printing /\ Flipped /\ Buffered /\ v' = v /\ ras' = ras /\ row' = row
        /\ page' = page /\ in_data' = buf[adjusted_height - errline] /\ buf' = buf
        /\ errlast' = errline
    BY <1>5 DEF GetBufferedRow, stream, main
  <2>2. ASSUME ~ras.broken PROVE in_data' = <<page + 1, adjusted_height - errline - 1>>
    <3>1. adjusted_height \in Nat /\ errline \in Nat /\ errline < adjusted_height
      BY <2>1, OnPage DEF PageType
    <3>2. adjusted_height - errline \in 1 .. Len(buf)
      BY <2>1, <3>1 DEF Buffered
    <3> QED  BY <2>1, <2>2, <3>1, <3>2, OnPage DEF MemoryInv
  <2> QED  BY <2>1, <2>2, <1>f, OnPage DEF MemoryInv, Buffered
<1>6. CASE NextHeader \/ NoMoreHeaders \/ EndPage \/ EndJob \/ PageIsPrinted
  BY <1>6 DEF NextHeader, NoMoreHeaders, EndPage, EndJob, PageIsPrinted, MemoryInv
<1>7. CASE GetRow \/ cancel_job \/ Exited \/ UNCHANGED vars
  BY <1>7, <1>f DEF GetRow, cancel_job, Exited, vars, stream, main, scale, paper, MemoryInv
<1> QED
  BY <1>1, <1>2, <1>3, <1>4, <1>5, <1>6, <1>7 DEF Next

-----------------------------------------------------------------------------
(* The position only moves forward. *)
NotBefore(p, q) == p[1] < q[1] \/ (p[1] = q[1] /\ p[2] <= q[2])

LEMMA BeforeMonotone ==
  ASSUME NEW line \in Lines, NEW p \in Nat \X Nat, NEW q \in Nat \X Nat,
         NotBefore(p, q), Before(line, p)
  PROVE  Before(line, q)
  BY FilterAssumption DEF Lines, Before, NotBefore

LEMMA PositionMoves ==
  ASSUME TypeOK, StreamInv, [Next]_vars
  PROVE  /\ Position \in Nat \X Nat /\ Position' \in Nat \X Nat
         /\ NotBefore(Position, Position')
<1>0. ras \in RasType /\ ras' \in RasType /\ row \in Nat /\ Position \in Nat \X Nat
  <2>1. ras \in RasType /\ row \in Nat  BY DEF TypeOK, RasType
  <2>2. ASSUME NEW h \in Headers, NEW there \in 0 .. h.cupsHeight, TakesHeader(h, there)
        PROVE  ras' \in RasType
    BY <2>1, <2>2, FilterAssumption DEF TakesHeader, RasType, HeaderType
  <2>3. ASSUME NEW n \in Nat, ReadPixels(n) PROVE ras' \in RasType
    BY <2>1, <2>3, ReadPixelsTyped
  <2>4. ras' \in RasType  BY <2>1, <2>2, <2>3, EveryStreamStep DEF StreamStep
  <2> QED  BY <2>1, <2>4 DEF RasType, Position
<1>1. ASSUME NEW h \in Headers, NEW there \in 0 .. h.cupsHeight, TakesHeader(h, there)
      PROVE  NotBefore(Position, Position')
  <2>1. ras'.page = ras.page + 1  BY <1>1 DEF TakesHeader
  <2> QED  BY <1>0, <2>1 DEF RasType, Position, NotBefore
<1>2. ASSUME NEW n \in Nat, ReadPixels(n)
      PROVE  NotBefore(Position, Position')
  <2>1. ras'.page = ras.page /\ ras'.read = Lesser(ras.read + n, ras.there)
    BY <1>0, <1>2, ReadPixelsTyped
  <2>2. ras.read <= ras.there  BY DEF StreamInv
  <2> QED  BY <1>0, <2>1, <2>2 DEF RasType, Lesser, Position, NotBefore
<1>3. ras' = ras => NotBefore(Position, Position')
  BY <1>0 DEF RasType, Position, NotBefore
<1>4. Position' \in Nat \X Nat  BY <1>0 DEF RasType, Position
<1> QED  BY <1>0, <1>1, <1>2, <1>3, <1>4, EveryStreamStep DEF StreamStep

(* What a read leaves in memory is what was there, or a line that the       *)
(* stream has been read past.                                               *)
LEMMA LineReadBefore ==
  ASSUME TypeOK, NEW n \in Nat, ReadPixels(n), NEW data, Before(data, Position')
  PROVE  Before(LineRead(n, data), Position')
<1>1. ras \in RasType /\ row \in Nat  BY DEF TypeOK, RasType
<1>2. ras'.page = ras.page /\ ras'.read = Lesser(ras.read + n, ras.there)
  BY <1>1, ReadPixelsTyped
<1> DEFINE last == Lesser(ras.read + n, ras.there) - 1
<1>3. last < ras'.read
  BY <1>1, <1>2 DEF RasType, Lesser
<1>4. Before(<<ras.page, last>>, Position')
  BY <1>1, <1>2, <1>3 DEF Before, Position
<1> QED  BY <1>4 DEF LineRead, Before

(* ... or, if the signal came meanwhile, the line that was under way.       *)
LEMMA LineReadHeeded ==
  ASSUME NEW n, NEW data, Heeded(data), underWay = LineRead(n, NoLine)
  PROVE  Heeded(LineRead(n, data))
  BY DEF LineRead, Heeded, Before

LEMMA AppendHeeded ==
  ASSUME NEW lines \in Seq(Lines), NEW line \in Lines, AllHeeded(lines), Heeded(line)
  PROVE  AllHeeded(Append(lines, line))
<1>1. /\ Len(Append(lines, line)) = Len(lines) + 1
      /\ \A k \in 1 .. Len(lines) + 1 :
           Append(lines, line)[k] = IF k <= Len(lines) THEN lines[k] ELSE line
  OBVIOUS
<1>2. Len(lines) \in Nat  OBVIOUS
<1>3. ASSUME NEW k \in 1 .. Len(Append(lines, line))
      PROVE  Heeded(Append(lines, line)[k])
  <2>1. CASE k <= Len(lines)
    BY <1>1, <1>2, <2>1 DEF AllHeeded
  <2>2. CASE ~(k <= Len(lines))
    BY <1>1, <1>2, <2>2
  <2> QED  BY <2>1, <2>2
<1> QED  BY <1>3 DEF AllHeeded

LEMMA AppendBefore ==
  ASSUME NEW lines \in Seq(Lines), NEW line \in Lines, NEW position,
         AllBefore(lines, position), Before(line, position)
  PROVE  AllBefore(Append(lines, line), position)
<1>1. /\ Len(Append(lines, line)) = Len(lines) + 1
      /\ \A k \in 1 .. Len(lines) + 1 :
           Append(lines, line)[k] = IF k <= Len(lines) THEN lines[k] ELSE line
  OBVIOUS
<1>2. Len(lines) \in Nat  OBVIOUS
<1>3. ASSUME NEW k \in 1 .. Len(Append(lines, line))
      PROVE  Before(Append(lines, line)[k], position)
  <2>1. CASE k <= Len(lines)
    BY <1>1, <1>2, <2>1 DEF AllBefore
  <2>2. CASE ~(k <= Len(lines))
    BY <1>1, <1>2, <2>2
  <2> QED  BY <2>1, <2>2
<1> QED  BY <1>3 DEF AllBefore

LEMMA ReadNext ==
  ASSUME TypeOK, TypeOK', ScaleInv, CallInv, StreamInv, ReadInv, [Next]_vars
  PROVE  ReadInv'
<1>t. /\ in_data \in Lines /\ buf \in Seq(Lines) /\ sheet \in Seq(Lines)
      /\ in_data' \in Lines
  BY DEF TypeOK
<1>m. /\ \A line \in Lines : Before(line, Position) => Before(line, Position')
      /\ \A lines \in Seq(Lines) : AllBefore(lines, Position) => AllBefore(lines, Position')
  <2>1. \A line \in Lines : Before(line, Position) => Before(line, Position')
    BY PositionMoves, BeforeMonotone
  <2> QED  BY <2>1 DEF AllBefore
<1>e. /\ \A position : AllBefore(<<>>, position) /\ Before(NoLine, position)
      /\ AllHeeded(<<>>) /\ Heeded(NoLine)
  BY DEF AllBefore, Before, AllHeeded, Heeded
<1>k. /\ Before(in_data, Position') /\ AllBefore(buf, Position') /\ AllBefore(sheet, Position')
  BY <1>t, <1>m DEF ReadInv
<1>h. ASSUME signal' = signal
      PROVE  /\ cancelled' = cancelled
             /\ \A line : Heeded(line)' <=> Heeded(line)
             /\ \A lines : AllHeeded(lines)' <=> AllHeeded(lines)
  BY <1>h DEF signal, Heeded, AllHeeded
<1>n. tmp_image_status # "none" => LineWanted /\ pc = "print"
  BY DEF CallInv, LineWanted, Printing
<1>1. CASE StartPage
  <2>1. /\ signal' = signal /\ tmp_image_status' = "none"
        /\ \/ pc' # "print" /\ in_data' = in_data /\ buf' = buf /\ sheet' = sheet
           \/ in_data' = NoLine /\ buf' = <<>> /\ sheet' = <<>>
    BY <1>1, <1>n DEF StartPage, VerifyFails, paper, TypeOK
  <2> QED  BY <2>1, <1>e, <1>h, <1>k DEF ReadInv
<1>2. CASE DuplicateLine
  <2>1. /\ pc = "print" /\ in_data' = in_data /\ buf' = buf /\ sheet' = Append(sheet, in_data)
        /\ signal' = signal /\ tmp_image_status' = "none"
    BY <1>2, <1>n DEF DuplicateLine, LineWanted, Printing, PutLine
  <2> QED  BY <2>1, <1>t, <1>h, <1>k, AppendBefore, AppendHeeded DEF ReadInv
<1>3. CASE GetRow
  <2>1. /\ in_data' = in_data /\ buf' = buf /\ sheet' = sheet /\ pc' = pc
        /\ signal' = signal /\ tmp_image_status' = IF cancelled THEN "abort" ELSE "ok"
    BY <1>3 DEF GetRow, paper
  <2> QED  BY <2>1, <1>h, <1>k DEF ReadInv
<1>9. CASE ReadRow
  <2> DEFINE n == LinesUpTo(Asked)
  <2>1. /\ Printing /\ ReadPixels(n) /\ in_data' = LineRead(n, in_data) /\ buf' = buf
        /\ signal' = signal /\ tmp_image_status' = "none"
        /\ tmp_image_status \in {"ok", "abort"}
    BY <1>9 DEF ReadRow, LineWanted, TypeOK
  <2>2. n \in Nat  BY <1>9, <2>1, OnPage, LinesUpToBounds DEF ReadRow, Asked
  <2>3. Before(in_data', Position')  BY <2>1, <2>2, <1>k, LineReadBefore
  <2>4. CASE tmp_image_status = "abort"
    <3>1. sheet' = sheet /\ pc' = "printed"  BY <1>9, <2>4 DEF ReadRow, GiveUp
    <3> QED  BY <2>1, <2>3, <3>1, <1>h, <1>k DEF ReadInv
  <2>5. CASE tmp_image_status = "ok"
    <3>1. sheet' = Append(sheet, in_data') /\ pc = "print"
      BY <1>9, <2>1, <2>5 DEF ReadRow, PutLine, Printing
    <3>2. cancelled => Heeded(in_data')
      BY <2>1, <2>5, <3>1, LineReadHeeded DEF ReadInv
    <3>3. cancelled => AllHeeded(sheet')
      BY <3>1, <3>2, <1>t, AppendHeeded DEF ReadInv
    <3>4. AllBefore(sheet', Position')  BY <2>3, <3>1, <1>t, <1>k, AppendBefore
    <3> QED  BY <2>1, <2>3, <3>1, <3>2, <3>3, <3>4, <1>h, <1>k DEF ReadInv
  <2> QED  BY <2>1, <2>4, <2>5
<1>4. CASE FillBuffer
  <2> DEFINE n == LinesUpTo(Asked)
             line == LineRead(n, NoLine)
  <2>1. /\ Printing /\ ReadPixels(n) /\ buf' = Append(buf, line)
        /\ sheet' = sheet /\ in_data' = in_data
        /\ signal' = signal /\ tmp_image_status' = "none"
        /\ tmp_image_status \in {"ok", "abort"}
    BY <1>4 DEF FillBuffer, LineWanted, GiveUp, TypeOK
  <2>2. n \in Nat /\ line \in Lines
    <3>1. Asked \in Nat  BY <1>t, <2>1, OnPage DEF Asked
    <3>2. n \in Nat  BY <2>1, <3>1, OnPage, LinesUpToBounds
    <3> QED  BY <3>2, LineReadTyped DEF TypeOK, RasType, Lines
  <2>3. Before(line, Position')  BY <2>1, <2>2, <1>e, LineReadBefore
  <2>4. AllBefore(buf', Position')  BY <2>1, <2>2, <2>3, <1>t, <1>k, AppendBefore
  <2>5. tmp_image_status = "abort" => pc' = "printed"
    BY <1>4 DEF FillBuffer, FillAborts, GiveUp
  <2>6. ASSUME tmp_image_status = "ok", cancelled
        PROVE  AllHeeded(buf')
    <3>1. pc = "print"  BY <2>1 DEF Printing
    <3>2. Heeded(line)  BY <2>6, <1>e, LineReadHeeded DEF ReadInv
    <3> QED  BY <2>1, <2>2, <2>6, <3>1, <3>2, <1>t, AppendHeeded DEF ReadInv
  <2>7. pc = "print"  BY <2>1 DEF Printing
  <2> QED  BY <2>1, <2>4, <2>5, <2>6, <2>7, <1>h, <1>k DEF ReadInv
<1>5. CASE GetBufferedRow
  <2>1. /\ Printing /\ Buffered /\ in_data' = buf[adjusted_height - errline] /\ buf' = buf
        /\ sheet' = Append(sheet, in_data')
        /\ signal' = signal /\ tmp_image_status' = "none"
    BY <1>5, <1>n DEF GetBufferedRow, LineWanted, PutLine
  <2>2. adjusted_height - errline \in 1 .. Len(buf)
    <3>1. adjusted_height \in Nat /\ errline \in Nat /\ errline < adjusted_height
      BY <2>1, OnPage DEF PageType
    <3> QED  BY <2>1, <3>1 DEF Buffered
  <2>3. /\ \A position : AllBefore(buf, position) => Before(in_data', position)
        /\ AllHeeded(buf) => Heeded(in_data')
    BY <2>1, <2>2 DEF AllBefore, AllHeeded
  <2>4. pc = "print"  BY <2>1 DEF Printing
  <2> QED  BY <2>1, <2>3, <2>4, <1>t, <1>h, <1>k, AppendBefore, AppendHeeded DEF ReadInv
<1>6. CASE EndPage
  <2>1. /\ in_data' = in_data /\ buf' = <<>> /\ sheet' = sheet
        /\ signal' = signal /\ tmp_image_status' = "none" /\ pc' # "print"
    BY <1>6, <1>n DEF EndPage, TypeOK
  <2> QED  BY <2>1, <1>e, <1>h, <1>k DEF ReadInv
<1>7. CASE cancel_job
  <2>1. /\ in_data' = in_data /\ buf' = buf /\ sheet' = sheet /\ readBefore' = Position
        /\ cancelled' /\ UNCHANGED <<pc, tmp_image_status, ras, row, v>>
    BY <1>7 DEF cancel_job, stream, paper, Position
  <2>2. tmp_image_status = "ok" => underWay' = LineRead(LinesUpTo(Asked), NoLine)
    BY <1>7 DEF cancel_job
  <2>3. LineRead(LinesUpTo(Asked), NoLine)' = LineRead(LinesUpTo(Asked), NoLine)
    BY <1>7 DEF cancel_job, stream, main, scale, paper, LineRead, LinesUpTo, Asked, Flipped
  <2>4. /\ \A line : Before(line, Position) => Heeded(line)'
        /\ \A lines : AllBefore(lines, Position) => AllHeeded(lines)'
    BY <2>1 DEF Heeded, AllHeeded, AllBefore
  <2> QED  BY <2>1, <2>2, <2>3, <2>4, <1>k DEF ReadInv
<1>8. CASE NextHeader \/ NoMoreHeaders \/ PageIsPrinted \/ EndJob
  <2>1. /\ in_data' = in_data /\ buf' = buf /\ sheet' = sheet /\ signal' = signal
        /\ tmp_image_status' = tmp_image_status
        /\ pc' # "print"
    BY <1>8 DEF NextHeader, NoMoreHeaders, PageIsPrinted, EndJob, paper
  <2>2. tmp_image_status' = "none"
    BY <2>1 DEF TypeOK
  <2> QED  BY <2>1, <2>2, <1>h, <1>k DEF ReadInv
<1>10. CASE Exited \/ UNCHANGED vars
  <2>1. UNCHANGED vars  BY <1>10 DEF Exited
  <2>2. /\ in_data' = in_data /\ buf' = buf /\ sheet' = sheet /\ signal' = signal
        /\ tmp_image_status' = tmp_image_status /\ pc' = pc
        /\ LineRead(LinesUpTo(Asked), NoLine)' = LineRead(LinesUpTo(Asked), NoLine)
        /\ underWay' = underWay
    BY <2>1 DEF vars, stream, main, scale, paper, signal, LineRead, LinesUpTo, Asked, Flipped
  <2> QED  BY <2>2, <1>h, <1>k DEF ReadInv
<1> QED
  BY <1>1, <1>2, <1>3, <1>4, <1>5, <1>6, <1>7, <1>8, <1>9, <1>10 DEF Next

-----------------------------------------------------------------------------
(* The inductive invariant. *)
Inv ==
  /\ TypeOK /\ ScaleInv /\ CallInv /\ StreamInv /\ SheetInv /\ MemoryInv /\ PrinterInv /\ ReadInv

LEMMA InvInit == Init => Inv
<1> SUFFICES ASSUME Init PROVE Inv
  OBVIOUS
<1> USE DEF Init
<1>1. TypeOK
  <2>1. ras \in [page : Nat, read : Nat, there : Nat, broken : BOOLEAN]
    BY DEF Init
  <2>2. in_data \in Lines /\ buf \in Seq(Lines) /\ sheet \in Seq(Lines)
    BY DEF Lines
  <2>3. readBefore \in Nat \X Nat /\ underWay \in Lines  BY DEF Lines
  <2>4. y \in Nat /\ errline \in Nat /\ errval \in Nat /\ errlast \in Int
        /\ page \in Nat /\ row \in Nat
    OBVIOUS
  <2>5. pc \notin {"page", "print", "printed"} /\ pc # "print"  OBVIOUS
  <2> QED  BY <2>1, <2>2, <2>3, <2>4, <2>5 DEF TypeOK
<1>2. ScaleInv /\ CallInv /\ StreamInv /\ SheetInv /\ MemoryInv /\ PrinterInv
  BY DEF ScaleInv, CallInv, StreamInv, SheetInv, MemoryInv, PrinterInv
<1>3. ReadInv  BY DEF ReadInv, AllBefore, Before, AllHeeded
<1> QED  BY <1>1, <1>2, <1>3 DEF Inv

(* Whatever the pages, the scale, the printer and the moment of the signal, *)
(* the invariant holds.                                                     *)
THEOREM Inductive == Spec => []Inv
<1>1. Inv /\ [Next]_vars => Inv'
  BY TypeOKNext, ScaleNext, CallNext, StreamNext, SheetNext, MemoryNext, PrinterNext, ReadNext DEF Inv
<1> QED  BY <1>1, InvInit, PTL DEF Spec

(* Every variable of the filter and the driver keeps its type. *)
THEOREM TypeCorrect == Spec => []TypeOK
<1>1. Inv => TypeOK  BY DEF Inv
<1> QED  BY <1>1, Inductive, PTL

(* Each line of paper carries the line of the image that belongs there, for *)
(* images and papers of any height, on fronts and on backs turned around.   *)
THEOREM LinesAreInPlace == Spec => []LinesInPlace
<1>1. Inv => LinesInPlace  BY DEF Inv, SheetInv, LinesInPlace
<1> QED  BY <1>1, Inductive, PTL

(* The filter looks for a header where one stands. *)
THEOREM HeadersAreFound == Spec => []Aligned
<1>1. Inv => Aligned  BY DEF Inv, StreamInv, Aligned
<1> QED  BY <1>1, Inductive, PTL

(* Of what is read after the signal, at most the line is printed whose call *)
(* had looked at the flag before.                                           *)
THEOREM CancelIsHeeded == Spec => []CancelStopsReading
<1>1. Inv => CancelStopsReading  BY DEF Inv, ReadInv, AllHeeded, Heeded, CancelStopsReading
<1> QED  BY <1>1, Inductive, PTL

(* A page is printed on a printer that was started. *)
THEOREM PrinterIsStarted == Spec => []PagesOnStartedPrinter
<1>1. Inv => PagesOnStartedPrinter  BY DEF Inv, PrinterInv, PagesOnStartedPrinter
<1> QED  BY <1>1, Inductive, PTL
=============================================================================
