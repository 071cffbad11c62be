------------------------------ MODULE ShopProofs ------------------------------
(***************************************************************************)
(* The shop keeps what is proved of sales and of the ledger, for all       *)
(* values of the parameters; the arguments are in their own modules. The   *)
(* components it adds come with theirs, up to an invariant that their      *)
(* steps preserve. One theorem for each property comes last.               *)
(***************************************************************************)
EXTENDS Shop, Arithmetic, SequenceTheorems, TLAPS

-----------------------------------------------------------------------------
(* A step of the shop is a step of the component followed.                  *)

LEMMA SalesStep == ASSUME [ShopNext]_shopVars PROVE focus' = focus /\ (focus = "sales" => [S!Next]_S!vars)
BY DEF ShopNext, shopVars, salesVars, S!vars

LEMMA BooksStep == ASSUME [ShopNext]_shopVars PROVE focus' = focus /\ (focus = "books" => [B!Next]_B!vars)
BY DEF ShopNext, shopVars, ledgerVars, B!vars

LEMMA BankStep == ASSUME [ShopNext]_shopVars PROVE focus' = focus /\ (focus = "bank" => [K!Next]_K!vars)
BY DEF ShopNext, shopVars, ledgerVars, K!vars

LEMMA PrinterStep == ASSUME [ShopNext]_shopVars PROVE focus' = focus /\ (focus = "printer" => [H!Next]_H!vars)
BY DEF ShopNext, shopVars, printerVars, H!vars

LEMMA ReceiptStep == ASSUME [ShopNext]_shopVars PROVE focus' = focus /\ (focus = "receipt" => [X!Next]_X!vars)
BY DEF ShopNext, shopVars, receiptVars, X!vars

LEMMA CatalogueStep == ASSUME [ShopNext]_shopVars PROVE focus' = focus /\ (focus = "catalogue" => [G!Next]_G!vars)
BY DEF ShopNext, shopVars, catalogueVars, G!vars

LEMMA TerminalStep == ASSUME [ShopNext]_shopVars PROVE focus' = focus /\ (focus = "terminal" => [T!Next]_T!vars)
BY DEF ShopNext, shopVars, terminalVars, T!vars

LEMMA DesktopStep == ASSUME [ShopNext]_shopVars PROVE focus' = focus /\ (focus = "desktop" => [Z!Next]_Z!vars)
BY DEF ShopNext, shopVars, desktopVars, Z!vars, Z!disk

-----------------------------------------------------------------------------
(* Printer: while jobs connect, write and fail, the pieces on paper of a job *)
(* are the chunks before the one it has reached, and as long as the page     *)
(* stays open, the buttons let one job at a time be under way.               *)

Places ==
    {"new", "choosing", "discovering", "rediscovering", "writing", "browser", "error"} \cup H!Ended
\* Jobs that may still print, and jobs under way.
Unfinished == {"new", "choosing", "discovering", "rediscovering", "writing"}
Unsent == Unfinished \ {"writing"}
Active(j) == job[j].at \notin {"new"} \cup H!Ended
Visits == [name : {"pos", "staff"}, visit : 0 .. MaxVisits]
Piece == [job : Jobs, chunk : 1 .. Chunks, device : Devices, out : BOOLEAN]
Held == [device : Devices, answers : BOOLEAN]

Pieces(strip, j) == {i \in DOMAIN strip : strip[i].job = j}
\* The pieces of j on a paper are the chunks up to n, in order.
UpTo(strip, j, n) ==
    /\ {strip[i].chunk : i \in Pieces(strip, j)} = 1 .. n
    /\ \A i, k \in Pieces(strip, j) : i < k => strip[i].chunk < strip[k].chunk
\* Whatever came out since the first piece of j is of j.
AtTheEnd(strip, j) ==
    \A i \in 1 .. Len(strip) : strip[i].job = j => \A n \in i .. Len(strip) : strip[n].job = j
Apart(strip) ==
    \A i, k \in 1 .. Len(strip) :
        i < k /\ strip[i].job = strip[k].job => \A n \in i .. k : strip[n].job = strip[i].job

JobStates ==
    [at : Places, device : Devices \cup {None}, chunk : 1 .. Chunks, page : Visits \cup {None}]

PrinterTypes ==
    /\ link \in [Devices -> BOOLEAN] /\ printer \in Held \cup {None}
    /\ showing \in Visits /\ printing \in BOOLEAN
    /\ job \in [Jobs -> JobStates]
    /\ paper \in Seq(Piece) /\ faults \in 0 .. MaxFaults

LinkInv ==
    /\ printer # None => link[printer.device]
    /\ \A j \in Jobs : job[j].at \in {"discovering", "rediscovering"} => job[j].device \in Devices
PieceInv ==
    \A j \in Jobs :
        /\ job[j].at \in Unsent => job[j].chunk = 1
        /\ job[j].at \in Unfinished => UpTo(paper, j, job[j].chunk - 1)
        /\ job[j].at = "printed" => UpTo(paper, j, Chunks)
ApartInv ==
    showing.visit = 0 =>
        /\ Apart(paper)
        /\ \A j \in Jobs : Active(j) => printing /\ job[j].page = showing /\ AtTheEnd(paper, j)
        /\ \A j, k \in Jobs : Active(j) /\ Active(k) => j = k

\* The pieces of a job went to one printer, to the one held while it goes on.
SamePrinter(strip, j) ==
    \A i, k \in Pieces(strip, j) : strip[i].device = strip[k].device
SameInv ==
    showing.visit = 0 =>
        \A j \in Jobs :
            /\ job[j].at \in {"writing", "printed"} => SamePrinter(paper, j)
            /\ job[j].at = "writing" /\ printer # None =>
                   \A i \in Pieces(paper, j) : paper[i].device = printer.device

PrinterInv == PrinterTypes /\ LinkInv /\ PieceInv /\ ApartInv /\ SameInv

LEMMA InitPrinter == ASSUME H!Parameters, H!Init PROVE PrinterInv
<1>1. paper = <<>> /\ DOMAIN paper = {} /\ Len(paper) = 0 /\ paper \in Seq(Piece)
    BY DEF H!Init
<1>2. PrinterTypes
  <2>1. showing \in Visits
    BY DEF H!Init, H!Parameters, Visits
  <2>2. job \in [Jobs -> JobStates]
    BY DEF H!Init, H!Parameters, Places, JobStates
  <2>3. faults \in 0 .. MaxFaults /\ link \in [Devices -> BOOLEAN]
    BY DEF H!Init, H!Parameters
  <2> QED
    BY <1>1, <2>1, <2>2, <2>3 DEF H!Init, PrinterTypes
<1>3. \A j \in Jobs : job[j].at = "new" /\ job[j].chunk = 1
    BY DEF H!Init
<1>4. LinkInv
    BY <1>3 DEF H!Init, LinkInv
<1>5. \A j \in Jobs : UpTo(paper, j, 0)
    BY <1>1 DEF UpTo, Pieces
<1>6. PieceInv
    BY <1>3, <1>5 DEF PieceInv
<1>7. ApartInv
    BY <1>1, <1>3 DEF ApartInv, Apart, Active
<1>8. SameInv
    BY <1>3 DEF SameInv
<1> QED
    BY <1>2, <1>4, <1>6, <1>7, <1>8 DEF PrinterInv

\* A step of a job under way that prints nothing.
LEMMA QuietStep ==
    ASSUME H!Parameters, PrinterInv, NEW j \in Jobs, Active(j),
           PrinterTypes', LinkInv', UNCHANGED <<showing, paper>>,
           \A k \in Jobs \ {j} : job'[k] = job[k],
           job'[j].chunk = job[j].chunk, job'[j].page = job[j].page,
           job'[j].at \notin {"new", "printed"},
           job'[j].at \in Unfinished => job[j].at \in Unsent,
           printing' = H!PrintingAfter(j)
    PROVE  PrinterInv'
<1>1. PieceInv'
  <2>1. \A k \in Jobs : /\ job[k].at \in Unsent => job[k].chunk = 1
                        /\ job[k].at \in Unfinished => UpTo(paper, k, job[k].chunk - 1)
                        /\ job[k].at = "printed" => UpTo(paper, k, Chunks)
    BY DEF PrinterInv, PieceInv
  <2> QED
    BY <2>1 DEF PieceInv, Unsent, Unfinished
<1>2. ApartInv'
  <2> SUFFICES ASSUME showing.visit = 0
               PROVE  /\ Apart(paper)
                      /\ \A k \in Jobs : Active(k)' => printing' /\ job'[k].page = showing /\ AtTheEnd(paper, k)
                      /\ \A k, l \in Jobs : Active(k)' /\ Active(l)' => k = l
    BY DEF ApartInv
  <2>1. /\ Apart(paper)
        /\ \A k \in Jobs : Active(k) => printing /\ job[k].page = showing /\ AtTheEnd(paper, k)
        /\ \A k, l \in Jobs : Active(k) /\ Active(l) => k = l
    BY DEF PrinterInv, ApartInv
  <2>2. \A k \in Jobs : Active(k)' => k = j /\ Active(k)
    BY <2>1 DEF Active
  <2>3. Active(j)' => printing'
    BY <2>1 DEF H!PrintingAfter, Active
  <2> QED
    BY <2>1, <2>2, <2>3
<1>3. SameInv'
  <2> SUFFICES ASSUME showing.visit = 0, NEW k \in Jobs
               PROVE  /\ job'[k].at \in {"writing", "printed"} => SamePrinter(paper, k)
                      /\ job'[k].at = "writing" => Pieces(paper, k) = {}
    BY DEF SameInv, SamePrinter
  <2>1. CASE k # j
    <3>1. job'[k] = job[k] /\ ~(job[k].at = "writing")
      BY <2>1 DEF PrinterInv, ApartInv, Active, H!Ended
    <3> QED
      BY <3>1 DEF PrinterInv, SameInv
  <2>2. CASE k = j
    <3>1. SUFFICES ASSUME job'[j].at = "writing" PROVE Pieces(paper, j) = {}
      BY <2>2 DEF SamePrinter
    <3>2. job[j].at \in Unsent /\ job[j].chunk = 1
      BY <3>1 DEF PrinterInv, PieceInv, Unfinished
    <3>3. UpTo(paper, j, 0)
      BY <3>2 DEF PrinterInv, PieceInv, Unsent
    <3> QED
      BY <3>3 DEF UpTo
  <2> QED
    BY <2>1, <2>2
<1> QED
    BY <1>1, <1>2, <1>3 DEF PrinterInv

\* The new record of a job whose place changes.
LEMMA JobMoves ==
    ASSUME PrinterTypes, NEW j \in Jobs, NEW at \in Places, job' = H!Set(j, at)
    PROVE  /\ job' \in [Jobs -> JobStates]
           /\ \A k \in Jobs \ {j} : job'[k] = job[k]
           /\ job'[j].at = at /\ job'[j].chunk = job[j].chunk /\ job'[j].page = job[j].page
           /\ job'[j].device = job[j].device
BY DEF PrinterTypes, H!Set, JobStates

LEMMA ChooseStep ==
    ASSUME H!Parameters, PrinterInv, NEW j \in Jobs, NEW d \in Devices, H!Choose(j, d)
    PROVE  PrinterInv'
<1>1. /\ UNCHANGED <<platform, printer, showing, printing, paper, faults>>
      /\ job[j].at = "choosing" /\ link' = [link EXCEPT ![d] = TRUE]
    BY DEF H!Choose
<1>2. /\ \A k \in Jobs \ {j} : job'[k] = job[k]
      /\ job'[j] = [job[j] EXCEPT !.at = "discovering", !.device = d]
      /\ DOMAIN job' = DOMAIN job /\ job' = [k \in DOMAIN job |-> job'[k]]
    BY DEF H!Choose, PrinterInv, PrinterTypes
<1>3. job[j] \in JobStates
    BY DEF PrinterInv, PrinterTypes
<1>4. /\ job'[j] \in JobStates
      /\ job'[j].at = "discovering" /\ job'[j].chunk = job[j].chunk /\ job'[j].page = job[j].page
      /\ job'[j].device = d
    BY <1>2, <1>3 DEF Places, JobStates
<1>5. PrinterTypes'
  <2>1. job' \in [Jobs -> JobStates]
    BY <1>2, <1>4 DEF PrinterInv, PrinterTypes
  <2> QED
    BY <1>1, <2>1 DEF PrinterInv, PrinterTypes
<1>6. LinkInv'
    BY <1>1, <1>2, <1>4 DEF PrinterInv, PrinterTypes, LinkInv, Held
<1>7. printing' = H!PrintingAfter(j)
    BY <1>1, <1>4 DEF H!PrintingAfter, H!Ended, PrinterInv, PrinterTypes
<1> QED
    BY <1>1, <1>2, <1>4, <1>5, <1>6, <1>7, QuietStep DEF Active, Unsent, Unfinished, H!Ended

\* Steps that connect or fail to, with what they do to link and printer.
LEMMA ConnectStep ==
    ASSUME H!Parameters, PrinterInv, NEW j \in Jobs,
           H!NotChosen(j) \/ H!ConnectAgain(j) \/ H!Connected(j) \/ H!NotConnected(j) \/ H!NoPrinter(j)
    PROVE  PrinterInv'
<1>1. /\ UNCHANGED <<platform, showing, printing, paper, faults>>
      /\ job[j].at \in {"choosing", "discovering", "rediscovering", "writing"}
      /\ \E at \in {"rediscovering", "writing", "error"} :
             /\ job' = H!Set(j, at)
             /\ at # "error" => job[j].at \in {"discovering", "rediscovering"}
    BY DEF H!NotChosen, H!ConnectAgain, H!Connected, H!NotConnected, H!NoPrinter, H!Lose
<1>2. PICK at \in {"rediscovering", "writing", "error"} :
             /\ job' = H!Set(j, at)
             /\ at # "error" => job[j].at \in {"discovering", "rediscovering"}
    BY <1>1
<1>3. at \in Places
    BY DEF Places
<1>4. /\ job' \in [Jobs -> JobStates]
      /\ \A k \in Jobs \ {j} : job'[k] = job[k]
      /\ job'[j].at = at /\ job'[j].chunk = job[j].chunk /\ job'[j].page = job[j].page
      /\ job'[j].device = job[j].device
    BY <1>2, <1>3, JobMoves DEF PrinterInv
<1>5. /\ link' \in [Devices -> BOOLEAN] /\ printer' \in Held \cup {None}
      /\ printer' # None => link'[printer'.device]
  <2>1. /\ link \in [Devices -> BOOLEAN] /\ printer \in Held \cup {None}
        /\ printer # None => link[printer.device]
        /\ job[j].at \in {"discovering", "rediscovering"} => job[j].device \in Devices
    BY DEF PrinterInv, PrinterTypes, LinkInv
  <2>2. CASE H!NotChosen(j) \/ H!NoPrinter(j)
    BY <2>1, <2>2 DEF H!NotChosen, H!NoPrinter
  <2>3. CASE H!ConnectAgain(j)
    BY <2>1, <2>3 DEF H!ConnectAgain
  <2>4. CASE H!Connected(j)
    <3>1. PICK answers \in BOOLEAN : printer' = [device |-> job[j].device, answers |-> answers]
      BY <2>4 DEF H!Connected
    <3>2. job[j].device \in Devices /\ link[job[j].device] /\ link' = link
      BY <2>1, <2>4 DEF H!Connected, H!Discovered
    <3> QED
      BY <2>1, <3>1, <3>2 DEF Held
  <2>5. CASE H!NotConnected(j)
    BY <2>1, <2>5 DEF H!NotConnected, H!Lose, Held
  <2> QED
    BY <2>2, <2>3, <2>4, <2>5
<1>6. PrinterTypes'
    BY <1>1, <1>4, <1>5 DEF PrinterInv, PrinterTypes
<1>7. LinkInv'
    BY <1>1, <1>2, <1>4, <1>5 DEF PrinterInv, LinkInv
<1>8. printing' = H!PrintingAfter(j)
    BY <1>1, <1>4 DEF H!PrintingAfter, H!Ended, PrinterInv, PrinterTypes
<1> QED
    BY <1>1, <1>2, <1>4, <1>6, <1>7, <1>8, QuietStep DEF Active, Unsent, Unfinished, H!Ended

LEMMA DialogStep ==
    ASSUME H!Parameters, PrinterInv, NEW j \in Jobs, H!Fallback(j) \/ H!Dialog(j)
    PROVE  PrinterInv'
<1>1. /\ UNCHANGED <<platform, link, printer, showing, paper, faults>>
      /\ job[j].at \in {"error", "browser"} /\ printing' = H!PrintingAfter(j)
      /\ \E at \in {"dialogInstead", "dialog", "failed"} : job' = H!Set(j, at)
    BY DEF H!Fallback, H!Dialog
<1>2. PICK at \in {"dialogInstead", "dialog", "failed"} : job' = H!Set(j, at)
    BY <1>1
<1>3. at \in Places
    BY DEF Places, H!Ended
<1>4. /\ job' \in [Jobs -> JobStates]
      /\ \A k \in Jobs \ {j} : job'[k] = job[k]
      /\ job'[j].at = at /\ job'[j].chunk = job[j].chunk /\ job'[j].page = job[j].page
    BY <1>2, <1>3, JobMoves DEF PrinterInv
<1>5. printing' \in BOOLEAN
    BY <1>1 DEF H!PrintingAfter, PrinterInv, PrinterTypes
<1>6. PrinterTypes'
    BY <1>1, <1>4, <1>5 DEF PrinterInv, PrinterTypes
<1>7. LinkInv'
    BY <1>1, <1>2, <1>4 DEF PrinterInv, LinkInv
<1> QED
    BY <1>1, <1>2, <1>4, <1>6, <1>7, QuietStep DEF Active, Unsent, Unfinished, H!Ended

\* A piece more on paper.
LEMMA PieceAdded ==
    ASSUME NEW p \in Seq(Piece), NEW x \in Piece,
           NEW j \in Jobs, NEW c \in 1 .. Chunks, x.job = j, x.chunk = c
    PROVE  LET q == Append(p, x)
           IN  /\ q \in Seq(Piece) /\ Len(q) = Len(p) + 1 /\ Len(p) \in Nat
               /\ \A i \in 1 .. Len(p) : q[i] = p[i]
               /\ q[Len(p) + 1].job = j /\ q[Len(p) + 1].chunk = c
<1> DEFINE q == Append(p, x)
<1>1. q \in Seq(Piece) /\ Len(q) = Len(p) + 1 /\ Len(p) \in Nat
    OBVIOUS
<1>2. \A i \in 1 .. Len(p) : q[i] = p[i]
    OBVIOUS
<1>3. q[Len(p) + 1] = x
    OBVIOUS
<1> QED
    BY <1>1, <1>2, <1>3

LEMMA UpToOthers ==
    ASSUME NEW p \in Seq(Piece), NEW x \in Piece,
           NEW j \in Jobs, NEW c \in 1 .. Chunks, x.job = j, x.chunk = c,
           NEW k \in Jobs \ {j}, NEW n, UpTo(p, k, n)
    PROVE  UpTo(Append(p, x), k, n)
<1> DEFINE q == Append(p, x)
<1>1. /\ q \in Seq(Piece) /\ Len(q) = Len(p) + 1 /\ Len(p) \in Nat
      /\ \A i \in 1 .. Len(p) : q[i] = p[i]
      /\ q[Len(p) + 1].job = j /\ q[Len(p) + 1].chunk = c
    BY PieceAdded
<1> HIDE DEF q
<1>2. Pieces(q, k) = Pieces(p, k) /\ \A i \in Pieces(p, k) : q[i] = p[i]
    BY <1>1 DEF Pieces
<1>3. UpTo(q, k, n)
    BY <1>2 DEF UpTo
<1> QED
    BY <1>3 DEF q

LEMMA UpToNext ==
    ASSUME NEW p \in Seq(Piece), NEW x \in Piece,
           NEW j \in Jobs, NEW c \in 1 .. Chunks, x.job = j, x.chunk = c, UpTo(p, j, c - 1)
    PROVE  UpTo(Append(p, x), j, c)
<1> DEFINE q == Append(p, x)
<1>1. /\ q \in Seq(Piece) /\ Len(q) = Len(p) + 1 /\ Len(p) \in Nat
      /\ \A i \in 1 .. Len(p) : q[i] = p[i]
      /\ q[Len(p) + 1].job = j /\ q[Len(p) + 1].chunk = c
    BY PieceAdded
<1> HIDE DEF q
<1>2. /\ Pieces(q, j) = Pieces(p, j) \cup {Len(p) + 1}
      /\ \A i \in Pieces(p, j) : q[i] = p[i] /\ i \in 1 .. Len(p)
    BY <1>1 DEF Pieces
<1>3. {p[i].chunk : i \in Pieces(p, j)} = 1 .. (c - 1)
    BY DEF UpTo
<1>4. {q[i].chunk : i \in Pieces(q, j)} = {p[i].chunk : i \in Pieces(p, j)} \cup {c}
    BY <1>1, <1>2
<1>5. {q[i].chunk : i \in Pieces(q, j)} = 1 .. c
    BY <1>3, <1>4
<1>6. \A i, k \in Pieces(q, j) : i < k => q[i].chunk < q[k].chunk
  <2> SUFFICES ASSUME NEW i \in Pieces(q, j), NEW k \in Pieces(q, j), i < k
               PROVE  q[i].chunk < q[k].chunk
    OBVIOUS
  <2>1. i \in Pieces(p, j) /\ q[i] = p[i] /\ i \in 1 .. Len(p)
    BY <1>1, <1>2
  <2>2. CASE k \in Pieces(p, j)
    BY <1>2, <2>1, <2>2 DEF UpTo
  <2>3. CASE k = Len(p) + 1
    <3>1. p[i].chunk \in 1 .. (c - 1)
      BY <1>3, <2>1
    <3> QED
      BY <1>1, <2>1, <2>3, <3>1
  <2> QED
    BY <1>2, <2>2, <2>3
<1> QED
    BY <1>5, <1>6 DEF UpTo, q

LEMMA ApartKept ==
    ASSUME NEW p \in Seq(Piece), NEW x \in Piece,
           NEW j \in Jobs, NEW c \in 1 .. Chunks, x.job = j, x.chunk = c, Apart(p), AtTheEnd(p, j)
    PROVE  /\ Apart(Append(p, x))
           /\ AtTheEnd(Append(p, x), j)
<1> DEFINE q == Append(p, x)
<1>1. /\ q \in Seq(Piece) /\ Len(q) = Len(p) + 1 /\ Len(p) \in Nat
      /\ \A i \in 1 .. Len(p) : q[i] = p[i]
      /\ q[Len(p) + 1].job = j /\ q[Len(p) + 1].chunk = c
    BY PieceAdded
<1> HIDE DEF q
<1>2. \A i \in 1 .. Len(q) : q[i].job = j => \A n \in i .. Len(q) : q[n].job = j
    BY <1>1 DEF AtTheEnd
<1>3. \A i, k \in 1 .. Len(q) :
          i < k /\ q[i].job = q[k].job => \A n \in i .. k : q[n].job = q[i].job
  <2> SUFFICES ASSUME NEW i \in 1 .. Len(q), NEW k \in 1 .. Len(q), i < k, q[i].job = q[k].job,
                      NEW n \in i .. k
               PROVE  q[n].job = q[i].job
    OBVIOUS
  <2>1. CASE k \in 1 .. Len(p)
    BY <1>1, <2>1 DEF Apart
  <2>2. CASE k = Len(p) + 1
    BY <1>1, <1>2, <2>2
  <2> QED
    BY <1>1, <2>1, <2>2
<1> QED
    BY <1>2, <1>3 DEF Apart, AtTheEnd, q

\* A step of print() that may put a chunk on paper.
LEMMA PieceStep ==
    ASSUME H!Parameters, PrinterInv, NEW j \in Jobs, H!Write(j) \/ H!WriteFails(j)
    PROVE  PrinterInv'
<1> DEFINE c == job[j].chunk
<1>2. paper \in Seq(Piece) /\ job[j] \in JobStates /\ job \in [Jobs -> JobStates]
      /\ c \in 1 .. Chunks /\ Chunks \in Nat
    BY DEF PrinterInv, PrinterTypes, JobStates, H!Parameters
<1>14. printer # None /\ printer \in Held
    BY DEF H!Write, H!WriteFails, PrinterInv, PrinterTypes
<1>15. PICK whole \in BOOLEAN :
          /\ paper' \in {paper, Append(paper, H!NextPiece(j, whole))}
          /\ H!Write(j) => paper' = Append(paper, H!NextPiece(j, whole))
  <2>1. CASE H!Write(j)
    BY <2>1 DEF H!Write, H!Send
  <2>2. CASE ~H!Write(j)
    BY <2>2 DEF H!WriteFails
  <2> QED
    BY <2>1, <2>2
<1> DEFINE x == H!NextPiece(j, whole)
           longer == Append(paper, x)
<1>16. x \in Piece /\ x.job = j /\ x.chunk = c /\ x.device = printer.device
    BY <1>2, <1>14, <1>15 DEF H!NextPiece, Piece, Held
<1> HIDE DEF x
<1>1. /\ UNCHANGED <<platform, link, printer, showing>> /\ job[j].at = "writing"
      /\ paper' \in {paper, longer}
    BY <1>15 DEF H!Write, H!WriteFails, x
<1>3. \E at \in {"writing", "printed", "error"}, n \in 1 .. Chunks :
         /\ job' = [job EXCEPT ![j].at = at, ![j].chunk = n]
         /\ at = "printed" => c = Chunks /\ paper' = longer
         /\ at = "writing" => n = c + 1 /\ paper' = longer
  <2>1. CASE H!Write(j)
    <3>1. CASE c = Chunks
      BY <1>2, <1>15, <2>1, <3>1 DEF H!Write, H!Onward, x
    <3>2. CASE c # Chunks
      <4>1. c + 1 \in 1 .. Chunks
        BY <1>2, <3>2
      <4> QED
        BY <1>15, <2>1, <3>2, <4>1 DEF H!Write, H!Onward, x
    <3> QED
      BY <3>1, <3>2
  <2>2. CASE H!WriteFails(j)
    <3>1. job' = [job EXCEPT ![j].at = "error"]
      BY <2>2 DEF H!WriteFails, H!Set
    <3>2. job' = [job EXCEPT ![j].at = "error", ![j].chunk = c]
      BY <1>2, <3>1 DEF JobStates
    <3> QED
      BY <1>2, <3>2
  <2> QED
    BY <2>1, <2>2
<1>4. PICK at \in {"writing", "printed", "error"}, n \in 1 .. Chunks :
         /\ job' = [job EXCEPT ![j].at = at, ![j].chunk = n]
         /\ at = "printed" => c = Chunks /\ paper' = longer
         /\ at = "writing" => n = c + 1 /\ paper' = longer
    BY <1>3
<1>5. /\ \A k \in Jobs \ {j} : job'[k] = job[k]
      /\ job'[j] = [job[j] EXCEPT !.at = at, !.chunk = n]
    BY <1>2, <1>4
<1>6. /\ job'[j] \in JobStates /\ job'[j].at = at /\ job'[j].chunk = n
      /\ job'[j].page = job[j].page /\ job'[j].device = job[j].device
    BY <1>2, <1>5 DEF JobStates, Places, H!Ended
<1>7. job' \in [Jobs -> JobStates]
    BY <1>2, <1>4, <1>5, <1>6
<1>8. longer \in Seq(Piece)
    BY <1>2, <1>16, PieceAdded
<1>9. printing' = H!PrintingAfter(j)
  <2>1. CASE H!Write(j)
    BY <2>1 DEF H!Write, H!Onward
  <2>2. CASE H!WriteFails(j)
    <3>1. job' = [job EXCEPT ![j].at = "error"] /\ printing' = printing
      BY <2>2 DEF H!WriteFails, H!Set
    <3>2. job'[j].at = "error"
      BY <1>2, <3>1 DEF JobStates
    <3>3. printing \in BOOLEAN
      BY DEF PrinterInv, PrinterTypes
    <3> QED
      BY <3>1, <3>2, <3>3 DEF H!PrintingAfter, H!Ended
  <2> QED
    BY <2>1, <2>2
<1>10. PrinterTypes'
  <2>1. faults' = faults \/ (faults < MaxFaults /\ faults' = faults + 1)
    BY DEF H!Write, H!Send, H!WriteFails
  <2>2. faults' \in 0 .. MaxFaults
    BY <2>1 DEF PrinterInv, PrinterTypes, H!Parameters
  <2>3. printing' \in BOOLEAN
    BY <1>9 DEF H!PrintingAfter, PrinterInv, PrinterTypes
  <2> QED
    BY <1>1, <1>2, <1>7, <1>8, <2>2, <2>3 DEF PrinterInv, PrinterTypes
<1>11. LinkInv'
    BY <1>1, <1>5, <1>6 DEF PrinterInv, LinkInv
<1> HIDE DEF longer
<1>12. PieceInv'
  <2>1. \A k \in Jobs : /\ job[k].at \in Unsent => job[k].chunk = 1
                        /\ job[k].at \in Unfinished => UpTo(paper, k, job[k].chunk - 1)
                        /\ job[k].at = "printed" => UpTo(paper, k, Chunks)
    BY DEF PrinterInv, PieceInv
  <2>2. \A k \in Jobs \ {j} : \A m : UpTo(paper, k, m) => UpTo(paper', k, m)
    BY <1>1, <1>2, <1>16, UpToOthers DEF longer
  <2>3. UpTo(longer, j, c)
    BY <1>1, <1>2, <1>16, <2>1, UpToNext DEF longer, Unfinished
  <2>4. ASSUME NEW k \in Jobs
        PROVE  /\ job'[k].at \in Unsent => job'[k].chunk = 1
               /\ job'[k].at \in Unfinished => UpTo(paper', k, job'[k].chunk - 1)
               /\ job'[k].at = "printed" => UpTo(paper', k, Chunks)
    <3>1. CASE k = j
      <4>1. at = "writing" => n - 1 = c
        BY <1>2, <1>4
      <4> QED
        BY <1>4, <1>6, <2>3, <3>1, <4>1 DEF Unsent, Unfinished
    <3>2. CASE k # j
      BY <1>5, <2>1, <2>2, <3>2
    <3> QED
      BY <3>1, <3>2
  <2> QED
    BY <2>4 DEF PieceInv
<1>13. ApartInv'
  <2> SUFFICES ASSUME showing.visit = 0
               PROVE  /\ Apart(paper')
                      /\ \A k \in Jobs : Active(k)' => printing' /\ job'[k].page = showing /\ AtTheEnd(paper', k)
                      /\ \A k, l \in Jobs : Active(k)' /\ Active(l)' => k = l
    BY <1>1 DEF ApartInv
  <2>1. /\ Apart(paper)
        /\ \A k \in Jobs : Active(k) => printing /\ job[k].page = showing /\ AtTheEnd(paper, k)
        /\ \A k, l \in Jobs : Active(k) /\ Active(l) => k = l
    BY DEF PrinterInv, ApartInv
  <2>2. Active(j)
    BY <1>1 DEF Active, H!Ended
  <2>3. \A k \in Jobs : Active(k)' => k = j
    BY <1>5, <2>1, <2>2 DEF Active
  <2>4. Active(j)' => printing'
    BY <1>9, <2>1, <2>2 DEF H!PrintingAfter, Active
  <2>5. Apart(paper') /\ AtTheEnd(paper', j)
    BY <1>1, <1>2, <1>16, <2>1, <2>2, ApartKept DEF longer
  <2> QED
    BY <1>6, <2>1, <2>2, <2>3, <2>4, <2>5
<1>17. SameInv'
  <2> SUFFICES ASSUME showing.visit = 0, NEW k \in Jobs,
                      job'[k].at \in {"writing", "printed"}
               PROVE  /\ SamePrinter(paper', k)
                      /\ job'[k].at = "writing" =>
                             \A i \in Pieces(paper', k) : paper'[i].device = printer.device
    BY <1>1 DEF SameInv, SamePrinter
  <2>1. /\ longer \in Seq(Piece) /\ Len(longer) = Len(paper) + 1 /\ Len(paper) \in Nat
        /\ \A i \in 1 .. Len(paper) : longer[i] = paper[i]
        /\ longer[Len(paper) + 1].job = j
        /\ longer[Len(paper) + 1] = x
    BY <1>2, <1>16, PieceAdded DEF longer
  <2>2. CASE k = j
    <3>1. paper' = longer
      BY <1>4, <1>6, <2>2
    <3>2. \A i \in Pieces(paper, j) : paper[i].device = printer.device
      BY <1>1, <1>14 DEF PrinterInv, SameInv
    <3>3. \A i \in Pieces(longer, j) : longer[i].device = printer.device
      BY <1>16, <2>1, <3>2 DEF Pieces
    <3> QED
      BY <2>2, <3>1, <3>3 DEF SamePrinter
  <2>3. CASE k # j
    <3>1. job'[k] = job[k]
      BY <1>5, <2>3
    <3>2. job[k].at = "printed"
      BY <1>1, <2>3, <3>1 DEF PrinterInv, ApartInv, Active, H!Ended
    <3>3. SamePrinter(paper, k)
      BY <3>2 DEF PrinterInv, SameInv
    <3>4. Pieces(longer, k) = Pieces(paper, k)
      BY <2>1, <2>3 DEF Pieces
    <3>5. SamePrinter(longer, k)
      BY <2>1, <3>3, <3>4 DEF SamePrinter, Pieces
    <3> QED
      BY <1>1, <3>1, <3>2, <3>3, <3>5
  <2> QED
    BY <2>2, <2>3
<1> QED
    BY <1>10, <1>11, <1>12, <1>13, <1>17 DEF PrinterInv

LEMMA StartStep ==
    ASSUME H!Parameters, PrinterInv, NEW j \in Jobs, H!StartPrint(j) PROVE PrinterInv'
<1>1. /\ UNCHANGED <<platform, link, printer, showing, paper, faults>>
      /\ job[j].at = "new" /\ ~printing /\ printing' = TRUE
    BY DEF H!StartPrint, H!ButtonEnabled
<1>2. \E at \in {"browser", "choosing", "writing"} :
         job' = [job EXCEPT ![j] = [at |-> at, device |-> None, chunk |-> 1, page |-> showing]]
    BY DEF H!StartPrint
<1>3. PICK at \in {"browser", "choosing", "writing"} :
         job' = [job EXCEPT ![j] = [at |-> at, device |-> None, chunk |-> 1, page |-> showing]]
    BY <1>2
<1>4. job \in [Jobs -> JobStates] /\ showing \in Visits
    BY DEF PrinterInv, PrinterTypes
<1>5. /\ \A k \in Jobs \ {j} : job'[k] = job[k]
      /\ job'[j].at = at /\ job'[j].chunk = 1 /\ job'[j].page = showing
    BY <1>3, <1>4
<1>6. job' \in [Jobs -> JobStates]
  <2>1. [at |-> at, device |-> None, chunk |-> 1, page |-> showing] \in JobStates
    BY <1>4 DEF JobStates, Places, H!Parameters
  <2> QED
    BY <1>3, <1>4, <2>1
<1>7. PrinterTypes'
    BY <1>1, <1>6 DEF PrinterInv, PrinterTypes
<1>8. LinkInv'
    BY <1>1, <1>5 DEF PrinterInv, LinkInv
<1>9. UpTo(paper, j, 0)
    BY <1>1 DEF PrinterInv, PieceInv, Unsent, Unfinished
<1>10. PieceInv'
    BY <1>1, <1>5, <1>9 DEF PrinterInv, PieceInv
<1>11. ApartInv'
  <2> SUFFICES ASSUME showing.visit = 0
               PROVE  /\ Apart(paper)
                      /\ \A k \in Jobs : Active(k)' => printing' /\ job'[k].page = showing /\ AtTheEnd(paper, k)
                      /\ \A k, l \in Jobs : Active(k)' /\ Active(l)' => k = l
    BY <1>1 DEF ApartInv
  <2>1. Apart(paper) /\ \A k \in Jobs : ~Active(k)
    BY <1>1 DEF PrinterInv, ApartInv
  <2>2. \A k \in Jobs : Active(k)' => k = j
    BY <1>5, <2>1 DEF Active
  <2>3. Pieces(paper, j) = {}
    BY <1>9 DEF UpTo
  <2>4. AtTheEnd(paper, j)
    BY <2>3 DEF AtTheEnd, Pieces, PrinterInv, PrinterTypes
  <2> QED
    BY <1>1, <1>5, <2>1, <2>2, <2>4
<1>12. SameInv'
  <2> SUFFICES ASSUME showing.visit = 0, NEW k \in Jobs
               PROVE  /\ job'[k].at \in {"writing", "printed"} => SamePrinter(paper, k)
                      /\ job'[k].at = "writing" =>
                             \A i \in Pieces(paper, k) : paper[i].device = printer.device
    BY <1>1 DEF SameInv, SamePrinter
  <2>1. CASE k = j
    BY <1>9, <2>1 DEF UpTo, SamePrinter
  <2>2. CASE k # j
    <3>1. job'[k] = job[k] /\ ~(job[k].at = "writing")
      BY <1>1, <1>5, <2>2 DEF PrinterInv, ApartInv, Active, H!Ended
    <3> QED
      BY <3>1 DEF PrinterInv, SameInv
  <2> QED
    BY <2>1, <2>2
<1> QED
    BY <1>7, <1>8, <1>10, <1>11, <1>12 DEF PrinterInv

LEMMA LeaveStep == ASSUME H!Parameters, PrinterInv, H!Leave PROVE PrinterInv'
<1>1. UNCHANGED <<platform, link, printer, job, paper, faults>> /\ printing' = FALSE
    BY DEF H!Leave
<1>2. showing' \in Visits /\ showing'.visit # 0
    BY DEF H!Leave, H!Parameters, PrinterInv, PrinterTypes, Visits
<1>3. PrinterTypes'
    BY <1>1, <1>2 DEF PrinterInv, PrinterTypes
<1>4. LinkInv' /\ PieceInv'
    BY <1>1 DEF PrinterInv, LinkInv, PieceInv
<1>5. ApartInv' /\ SameInv'
    BY <1>2 DEF ApartInv, SameInv
<1> QED
    BY <1>3, <1>4, <1>5 DEF PrinterInv

LEMMA DropStep ==
    ASSUME H!Parameters, PrinterInv, NEW d \in Devices, H!Drop(d) PROVE PrinterInv'
<1>1. /\ UNCHANGED <<platform, showing, printing, job, paper>> /\ faults' = faults + 1
      /\ faults < MaxFaults /\ link' = [link EXCEPT ![d] = FALSE]
      /\ printer' = IF printer # None /\ printer.device = d THEN None ELSE printer
    BY DEF H!Drop, H!Lose
<1>2. PrinterTypes'
    BY <1>1 DEF PrinterInv, PrinterTypes, H!Parameters
<1>3. LinkInv'
    BY <1>1 DEF PrinterInv, PrinterTypes, LinkInv, Held
<1>4. PieceInv' /\ ApartInv'
    BY <1>1 DEF PrinterInv, PieceInv, ApartInv, Active
<1>5. SameInv'
    BY <1>1 DEF PrinterInv, SameInv
<1> QED
    BY <1>2, <1>3, <1>4, <1>5 DEF PrinterInv

LEMMA NextPrinter == ASSUME H!Parameters, PrinterInv, [H!Next]_H!vars PROVE PrinterInv'
<1>1. CASE UNCHANGED H!vars
    BY <1>1 DEF H!vars, PrinterInv, PrinterTypes, LinkInv, PieceInv, ApartInv, SameInv, Active
<1>2. CASE \E j \in Jobs : H!StartPrint(j) \/ H!Connecting(j) \/ H!Printing(j)
    BY <1>2, StartStep, ChooseStep, ConnectStep, DialogStep, PieceStep DEF H!Connecting, H!Printing
<1>3. CASE \E d \in Devices : H!Drop(d)
    BY <1>3, DropStep
<1>4. CASE H!Leave
    BY <1>4, LeaveStep
<1> QED
    BY <1>1, <1>2, <1>3, <1>4 DEF H!Next

\* The invariant gives what is promised.
LEMMA PrinterOf ==
    ASSUME H!Parameters, PrinterInv
    PROVE  H!HeldIsConnected /\ H!PrintedIsWhole /\ H!ReceiptsApart
<1>1. H!HeldIsConnected
    BY DEF PrinterInv, LinkInv, H!HeldIsConnected
<1>2. H!PrintedIsWhole
    BY DEF PrinterInv, PieceInv, SameInv, SamePrinter, UpTo, Pieces, H!PrintedIsWhole, H!Pieces
<1>3. H!ReceiptsApart
    BY DEF PrinterInv, ApartInv, Apart, H!ReceiptsApart
<1> QED
    BY <1>1, <1>2, <1>3

-----------------------------------------------------------------------------
(* Receipt: each line printed so far has the modes asked for it, whatever    *)
(* the encoder was left with, and the lines are those of an answer.          *)

LineStyles ==
    [align : {"left", "center"}, bold : BOOLEAN, large : BOOLEAN, medium : BOOLEAN, inverse : BOOLEAN]
PrintModes == [align : {"left", "center"}, bold : BOOLEAN, size : {1, 2}, inverse : BOOLEAN]
Labels == {X!NoText, "divider", "SL", "item"} \cup X!TOTAL_LABELS \cup X!DETAIL_LABELS
ReceiptLine ==
    {line \in [label : Labels, amount : Nat, style : LineStyles, image : BOOLEAN] :
        line.image => line.style = X!Centered}

ReceiptInv ==
    /\ lines \in Seq(ReceiptLine) /\ out \in Seq(PrintModes)
    /\ Len(out) <= Len(lines) /\ \A n \in 1 .. Len(out) : out[n] = X!Asked(lines[n])
    /\ receipt = <<>> \/ \E r \in Answers : receipt = <<r>> /\ lines = X!FormatReceipt(r)

LEMMA StylesOfLines ==
    /\ X!Plain \in LineStyles /\ X!Bold \in LineStyles /\ X!Centered \in LineStyles
    /\ [X!Bold EXCEPT !.align = "center"] \in LineStyles
    /\ X!Style("center", TRUE, TRUE, FALSE, FALSE) \in LineStyles
BY DEF LineStyles, X!Plain, X!Bold, X!Centered, X!Style

LEMMA LineIs ==
    ASSUME NEW label \in Labels, NEW amount \in Nat, NEW style \in LineStyles
    PROVE  /\ X!Line(label, amount, style) \in ReceiptLine
           /\ X!Line(label, amount, style).label = label /\ X!Line(label, amount, style).amount = amount
BY DEF ReceiptLine, X!Line

\* Sums of the amounts of the lines with given labels.
SumOf(rows, labels) ==
    SumFunctionOnSet([n \in 1 .. Len(rows) |-> IF rows[n].label \in labels THEN rows[n].amount ELSE 0],
                     1 .. Len(rows))

LEMMA SumOfIsNat ==
    ASSUME NEW rows \in Seq(ReceiptLine), NEW labels
    PROVE  SumOf(rows, labels) \in Nat
<1> DEFINE f == [n \in 1 .. Len(rows) |-> IF rows[n].label \in labels THEN rows[n].amount ELSE 0]
<1>1. IsFiniteSet(1 .. Len(rows))
    BY FS_Interval
<1>2. \A n \in 1 .. Len(rows) : rows[n].amount \in Nat
    BY DEF ReceiptLine
<1>3. \A n \in 1 .. Len(rows) : f[n] \in Nat
    BY <1>2
<1> HIDE DEF f
<1>4. SumFunctionOnSet(f, 1 .. Len(rows)) \in Nat
    BY <1>1, <1>3, SumNat
<1> QED
    BY <1>4 DEF SumOf, f

LEMMA SumOfConcat ==
    ASSUME NEW s \in Seq(ReceiptLine), NEW t \in Seq(ReceiptLine), NEW labels
    PROVE  /\ s \o t \in Seq(ReceiptLine)
           /\ SumOf(s \o t, labels) = SumOf(s, labels) + SumOf(t, labels)
<1> DEFINE w == s \o t
           m == Len(s)
           k == Len(t)
           value(line) == IF line.label \in labels THEN line.amount ELSE 0
           f == [n \in 1 .. m + k |-> value(w[n])]
           g == [n \in 1 .. m |-> value(s[n])]
           h == [n \in 1 .. k |-> value(t[n])]
           later == [n \in 1 .. k |-> n + m]
<1>1. /\ w \in Seq(ReceiptLine) /\ Len(w) = m + k /\ m \in Nat /\ k \in Nat
      /\ \A n \in 1 .. m + k : w[n] = IF n <= m THEN s[n] ELSE t[n - m]
    BY ConcatProperties, LenProperties
<1>2. \A line \in ReceiptLine : value(line) \in Nat
    BY DEF ReceiptLine
<1> HIDE DEF w, m, k
<1>3. /\ SumOf(w, labels) = SumFunctionOnSet(f, 1 .. m + k)
      /\ SumOf(s, labels) = SumFunctionOnSet(g, 1 .. m)
      /\ SumOf(t, labels) = SumFunctionOnSet(h, 1 .. k)
    BY <1>1 DEF SumOf, m, k
<1>4. /\ \A n \in 1 .. m : s[n] \in ReceiptLine
      /\ \A n \in 1 .. k : t[n] \in ReceiptLine
      /\ \A n \in 1 .. m + k : w[n] \in ReceiptLine
    BY <1>1 DEF m, k
<1> HIDE DEF value
<1>5. \A n \in 1 .. m + k : f[n] \in Nat
    BY <1>2, <1>4
<1>6. \A n \in 1 .. m : f[n] \in Int /\ g[n] = f[n]
  <2> SUFFICES ASSUME NEW n \in 1 .. m PROVE f[n] \in Int /\ g[n] = f[n]
    OBVIOUS
  <2>1. n \in 1 .. m + k /\ w[n] = s[n]
    BY <1>1
  <2> QED
    BY <1>5, <2>1
<1>7. \A n \in 1 .. k : f[later[n]] \in Int /\ h[n] = f[later[n]]
  <2> SUFFICES ASSUME NEW n \in 1 .. k PROVE f[later[n]] \in Int /\ h[n] = f[later[n]]
    OBVIOUS
  <2>1. later[n] = n + m /\ n + m \in 1 .. m + k /\ w[n + m] = t[n]
    BY <1>1
  <2> QED
    BY <1>5, <2>1
<1>8. \A n, o \in 1 .. k : later[n] = later[o] => n = o
    BY <1>1
<1>9. {later[n] : n \in 1 .. k} = (1 .. m + k) \ (1 .. m)
  <2>1. ASSUME NEW n \in (1 .. m + k) \ (1 .. m) PROVE n \in {later[o] : o \in 1 .. k}
    <3>1. n - m \in 1 .. k /\ later[n - m] = n
      BY <1>1
    <3> QED
      BY <3>1
  <2>2. \A n \in 1 .. k : later[n] \in (1 .. m + k) \ (1 .. m)
    BY <1>1
  <2> QED
    BY <2>1, <2>2
<1>10. IsFiniteSet(1 .. m + k) /\ IsFiniteSet(1 .. m) /\ IsFiniteSet(1 .. k)
  <2>1. m \in Int /\ k \in Int /\ m + k \in Int /\ 1 \in Int
    BY <1>1
  <2> QED
    BY <2>1, FS_Interval
<1> DEFINE all == 1 .. m + k
           first == 1 .. m
           second == 1 .. k
<1>11. first \subseteq all
    BY <1>1
<1> HIDE DEF f, g, h, later, all, first, second
<1>12. SumFunctionOnSet(f, all) = SumFunctionOnSet(f, first) + SumFunctionOnSet(f, all \ first)
  <2>1. \A n \in all : f[n] \in Int
    BY <1>5 DEF all
  <2>2. IsFiniteSet(all)
    BY <1>10 DEF all
  <2> QED
    BY <1>11, <2>1, <2>2, SumSplit
<1>13. SumFunctionOnSet(f, first) = SumFunctionOnSet(g, first)
    BY <1>6, <1>10, SumSame DEF first
<1>14. SumFunctionOnSet(f, {later[n] : n \in second}) = SumFunctionOnSet(h, second)
  <2>1. \A n \in second : f[later[n]] \in Int /\ h[n] = f[later[n]]
    BY <1>7 DEF second
  <2>2. \A n, o \in second : later[n] = later[o] => n = o
    BY <1>8 DEF second
  <2>3. IsFiniteSet(second)
    BY <1>10 DEF second
  <2> QED
    BY <2>1, <2>2, <2>3, SumImage
<1>15. {later[n] : n \in second} = all \ first
    BY <1>9 DEF all, first, second
<1> QED
    BY <1>1, <1>3, <1>12, <1>13, <1>14, <1>15 DEF w, all, first, second

\* Lines of other labels sum to nothing, a single line to its own amount.
LEMMA SumOfOthers ==
    ASSUME NEW rows \in Seq(ReceiptLine), NEW labels,
           \A n \in 1 .. Len(rows) : rows[n].label \notin labels
    PROVE  SumOf(rows, labels) = 0
<1> DEFINE f == [n \in 1 .. Len(rows) |-> IF rows[n].label \in labels THEN rows[n].amount ELSE 0]
<1>1. IsFiniteSet(1 .. Len(rows))
    BY FS_Interval
<1>2. \A n \in 1 .. Len(rows) : f[n] = 0
    OBVIOUS
<1> HIDE DEF f
<1>3. SumFunctionOnSet(f, 1 .. Len(rows)) = 0
    BY <1>1, <1>2, SumZero
<1> QED
    BY <1>3 DEF SumOf, f

LEMMA SumOfOne ==
    ASSUME NEW line \in ReceiptLine, NEW labels
    PROVE  /\ <<line>> \in Seq(ReceiptLine)
           /\ SumOf(<<line>>, labels) = IF line.label \in labels THEN line.amount ELSE 0
<1> DEFINE v == IF line.label \in labels THEN line.amount ELSE 0
           f == [n \in 1 .. Len(<<line>>) |-> IF <<line>>[n].label \in labels THEN <<line>>[n].amount ELSE 0]
<1>1. Len(<<line>>) = 1 /\ 1 .. 1 = {1} /\ <<line>>[1] = line
    OBVIOUS
<1>2. v \in Int
    BY DEF ReceiptLine
<1>3. f[1] = v
    BY <1>1
<1> HIDE DEF f, v
<1>4. IsFiniteSet({1}) /\ {1} \ {1} = {}
    BY FS_Singleton
<1>5. SumFunctionOnSet(f, {1}) = f[1] + SumFunctionOnSet(f, {})
    BY <1>2, <1>3, <1>4, SumTake
<1>6. SumFunctionOnSet(f, {}) = 0
    BY SumEmpty
<1>7. SumFunctionOnSet(f, 1 .. Len(<<line>>)) = v
    BY <1>1, <1>2, <1>3, <1>5, <1>6
<1> QED
    BY <1>7 DEF SumOf, f, v

LEMMA SumOfNone == ASSUME NEW labels PROVE <<>> \in Seq(ReceiptLine) /\ SumOf(<<>>, labels) = 0
<1>1. <<>> \in Seq(ReceiptLine) /\ Len(<<>>) = 0 /\ 1 .. 0 = {}
    OBVIOUS
<1> QED
    BY <1>1, SumOfOthers

-----------------------------------------------------------------------------
(* Receipt: the sections. One that has none of the labels adds nothing.      *)

LEMMA TextIs ==
    ASSUME NEW style \in LineStyles
    PROVE  /\ X!Text(style) \in Seq(ReceiptLine)
           /\ \A labels : X!NoText \notin labels => SumOf(X!Text(style), labels) = 0
<1>1. X!Line(X!NoText, 0, style) \in ReceiptLine /\ X!Line(X!NoText, 0, style).label = X!NoText
    BY LineIs DEF Labels
<1> QED
    BY <1>1, SumOfOne DEF X!Text

LEMMA RowIs ==
    ASSUME NEW label \in Labels, NEW amount \in Nat
    PROVE  /\ X!Row(label, amount) \in Seq(ReceiptLine) /\ X!BoldRow(label, amount) \in Seq(ReceiptLine)
           /\ \A labels : /\ SumOf(X!Row(label, amount), labels) = IF label \in labels THEN amount ELSE 0
                          /\ SumOf(X!BoldRow(label, amount), labels) = IF label \in labels THEN amount ELSE 0
<1>1. ASSUME NEW style \in {X!Plain, X!Bold}
      PROVE  /\ X!Line(label, amount, style) \in ReceiptLine
             /\ X!Line(label, amount, style).label = label /\ X!Line(label, amount, style).amount = amount
    BY StylesOfLines, LineIs
<1> QED
    BY <1>1, SumOfOne DEF X!Row, X!BoldRow

LEMMA DividerIs ==
    /\ X!Divider \in Seq(ReceiptLine)
    /\ \A labels : "divider" \notin labels => SumOf(X!Divider, labels) = 0
<1>1. "divider" \in Labels /\ 0 \in Nat
    BY DEF Labels
<1>2. X!Divider = X!Row("divider", 0)
    BY DEF X!Divider, X!Row
<1> QED
    BY <1>1, <1>2, RowIs

LEMMA WhenIs ==
    ASSUME NEW condition \in BOOLEAN, NEW rows \in Seq(ReceiptLine)
    PROVE  /\ X!When(condition, rows) \in Seq(ReceiptLine)
           /\ \A labels : SumOf(X!When(condition, rows), labels) = IF condition THEN SumOf(rows, labels) ELSE 0
BY SumOfNone DEF X!When

\* Sections that hold none of the labels of amounts.
Counted == {"item", "Subtotal", "Discount", "RewardDiscount", "TotalAmount", "PaidAmount", "DueAmount", "Change"}
Uncounted == {rows \in Seq(ReceiptLine) : \A labels \in SUBSET Counted : SumOf(rows, labels) = 0}

LEMMA UncountedConcat ==
    ASSUME NEW s \in Uncounted, NEW t \in Uncounted
    PROVE  s \o t \in Uncounted
<1>1. s \in Seq(ReceiptLine) /\ t \in Seq(ReceiptLine)
    BY DEF Uncounted
<1>2. s \o t \in Seq(ReceiptLine) /\ \A labels : SumOf(s \o t, labels) = SumOf(s, labels) + SumOf(t, labels)
    BY <1>1, SumOfConcat
<1>3. \A labels \in SUBSET Counted : SumOf(s, labels) = 0 /\ SumOf(t, labels) = 0
    BY DEF Uncounted
<1> QED
    BY <1>2, <1>3 DEF Uncounted

LEMMA UncountedRows ==
    /\ \A style \in LineStyles : X!Text(style) \in Uncounted
    /\ X!Divider \in Uncounted /\ X!BoldRow("SL", 0) \in Uncounted
    /\ \A label \in X!DETAIL_LABELS : \A amount \in Nat : X!Row(label, amount) \in Uncounted
    /\ \A condition \in BOOLEAN : \A rows \in Uncounted : X!When(condition, rows) \in Uncounted
<1>1. \A labels \in SUBSET Counted : /\ X!NoText \notin labels /\ "divider" \notin labels /\ "SL" \notin labels
                                     /\ \A label \in X!DETAIL_LABELS : label \notin labels
    BY DEF Counted, X!NoText, X!DETAIL_LABELS
<1>2. X!DETAIL_LABELS \subseteq Labels /\ "SL" \in Labels /\ 0 \in Nat
    BY DEF Labels
<1>3. ASSUME NEW style \in LineStyles PROVE X!Text(style) \in Uncounted
    BY <1>1, TextIs DEF Uncounted
<1>4. X!Divider \in Uncounted
    BY <1>1, DividerIs DEF Uncounted
<1>5. X!BoldRow("SL", 0) \in Uncounted
    BY <1>1, <1>2, RowIs DEF Uncounted
<1>6. ASSUME NEW label \in X!DETAIL_LABELS, NEW amount \in Nat PROVE X!Row(label, amount) \in Uncounted
  <2>1. label \in Labels
    BY <1>2
  <2>2. /\ X!Row(label, amount) \in Seq(ReceiptLine)
        /\ \A labels : SumOf(X!Row(label, amount), labels) = IF label \in labels THEN amount ELSE 0
    BY <2>1, RowIs
  <2>3. \A labels \in SUBSET Counted : label \notin labels
    BY <1>1
  <2> QED
    BY <2>2, <2>3 DEF Uncounted
<1>7. ASSUME NEW condition \in BOOLEAN, NEW rows \in Uncounted PROVE X!When(condition, rows) \in Uncounted
    BY SumOfNone DEF Uncounted, X!When
<1> QED
    BY <1>3, <1>4, <1>5, <1>6, <1>7

LEMMA AnswerIs ==
    ASSUME X!Parameters, NEW r \in Answers
    PROVE  /\ r.items \in Seq(Nat) /\ r.subtotal = X!SumFunction(r.items)
           /\ r.manual \in Nat /\ r.reward \in Nat /\ r.cash \in Nat /\ r.change \in Nat
           /\ r.earned \in Nat /\ r.redeemed \in Nat /\ r.subtotal \in Nat /\ r.total \in Nat
           /\ r.customer \in BOOLEAN /\ r.phone \in BOOLEAN /\ r.reference \in BOOLEAN
           /\ r.total = r.subtotal - r.manual - r.reward
           /\ r.cash >= r.total /\ r.change = r.cash - r.total
BY DEF X!Parameters, X!Wellformed

LEMMA HeaderIs == X!Header \in Uncounted
<1> DEFINE a == X!Text(X!Style("center", TRUE, TRUE, FALSE, FALSE))
           b == X!Text([X!Bold EXCEPT !.align = "center"])
           c == X!When("tagline" \in Business, X!Text(X!Centered))
           d == X!Text(X!Centered)
           e == X!When("phone" \in Business, X!Text(X!Centered))
<1>1. a \in Uncounted /\ b \in Uncounted /\ d \in Uncounted /\ X!Divider \in Uncounted
    BY StylesOfLines, UncountedRows
<1>2. c \in Uncounted /\ e \in Uncounted
  <2>1. ("tagline" \in Business) \in BOOLEAN /\ ("phone" \in Business) \in BOOLEAN
    OBVIOUS
  <2>2. X!Text(X!Centered) \in Uncounted
    BY <1>1
  <2> QED
    BY <2>1, <2>2, UncountedRows
<1>3. X!Header = a \o b \o c \o d \o e \o X!Divider
    BY DEF X!Header
<1> HIDE DEF a, b, c, d, e
<1> QED
    BY <1>1, <1>2, <1>3, UncountedConcat

LEMMA DetailLabels ==
    /\ {"InvoiceNo", "Date", "Time", "CustomerName", "MobileNo", "PaymentMethod", "Reference"}
           \subseteq X!DETAIL_LABELS
    /\ {"StaffName", "PointsEarned", "PointsRedeemed", "TotalPoints", "Tier"} \subseteq X!DETAIL_LABELS
BY DEF X!DETAIL_LABELS

LEMMA TransactionIs == ASSUME X!Parameters, NEW r \in Answers PROVE X!Transaction(r) \in Uncounted
<1> DEFINE a == X!Row("InvoiceNo", 0)
           b == X!Row("Date", 0)
           c == X!Row("Time", 0)
           d == X!Row("CustomerName", 0)
           e == X!When(r.customer /\ r.phone, X!Row("MobileNo", 0))
<1>1. a \in Uncounted /\ b \in Uncounted /\ c \in Uncounted /\ d \in Uncounted /\ X!Divider \in Uncounted
    BY DetailLabels, UncountedRows
<1>2. e \in Uncounted
  <2>1. X!Row("MobileNo", 0) \in Uncounted
    BY DetailLabels, UncountedRows
  <2>2. (r.customer /\ r.phone) \in BOOLEAN
    OBVIOUS
  <2> QED
    BY <2>1, <2>2, UncountedRows
<1>3. X!Transaction(r) = a \o b \o c \o d \o e \o X!Divider
    BY DEF X!Transaction
<1> HIDE DEF a, b, c, d, e
<1> QED
    BY <1>1, <1>2, <1>3, UncountedConcat

LEMMA FooterIs == ASSUME X!Parameters, NEW r \in Answers PROVE X!Footer(r) \in Uncounted
<1> DEFINE a == X!Row("PaymentMethod", 0)
           b == X!When(r.reference, X!Row("Reference", 0))
           c == X!Row("StaffName", 0)
           d == X!When(r.earned > 0, X!Row("PointsEarned", r.earned))
           e == X!When(r.redeemed > 0, X!Row("PointsRedeemed", r.redeemed))
           f == X!Row("TotalPoints", 0)
           g == X!Row("Tier", 0)
           loyalty == d \o e \o f \o g \o X!Divider
           h == X!When(X!ShowsLoyalty(r), loyalty)
           i == X!Text(X!Plain)
           k == X!Text([X!Bold EXCEPT !.align = "center"])
<1>1. /\ a \in Uncounted /\ c \in Uncounted /\ f \in Uncounted /\ g \in Uncounted
      /\ i \in Uncounted /\ k \in Uncounted /\ X!Divider \in Uncounted
    BY DetailLabels, StylesOfLines, UncountedRows
<1>2. r.reference \in BOOLEAN /\ r.earned \in Nat /\ r.redeemed \in Nat
    BY AnswerIs
<1>3. b \in Uncounted
  <2>1. X!Row("Reference", 0) \in Uncounted
    BY DetailLabels, UncountedRows
  <2> QED
    BY <1>2, <2>1, UncountedRows
<1>4. d \in Uncounted
  <2>1. X!Row("PointsEarned", r.earned) \in Uncounted /\ (r.earned > 0) \in BOOLEAN
    BY <1>2, DetailLabels, UncountedRows
  <2> QED
    BY <2>1, UncountedRows
<1>5. e \in Uncounted
  <2>1. X!Row("PointsRedeemed", r.redeemed) \in Uncounted /\ (r.redeemed > 0) \in BOOLEAN
    BY <1>2, DetailLabels, UncountedRows
  <2> QED
    BY <2>1, UncountedRows
<1> HIDE DEF a, b, c, d, e, f, g, i, k
<1>6. loyalty \in Uncounted
    BY <1>1, <1>4, <1>5, UncountedConcat
<1>7. X!ShowsLoyalty(r) \in BOOLEAN
    BY DEF X!ShowsLoyalty
<1>8. X!Footer(r) = a \o b \o c \o h \o X!Divider \o i \o k \o X!Divider
    BY DEF X!Footer, a, b, c, d, e, f, g, h, i, k
<1> HIDE DEF loyalty
<1>9. h \in Uncounted
    BY <1>6, <1>7, UncountedRows
<1> HIDE DEF h
<1> QED
    BY <1>1, <1>3, <1>8, <1>9, UncountedConcat

LEMMA ItemTableIs ==
    ASSUME X!Parameters, NEW r \in Answers
    PROVE  /\ X!ItemTable(r) \in Seq(ReceiptLine)
           /\ SumOf(X!ItemTable(r), {"item"}) = r.subtotal
           /\ \A labels \in SUBSET Counted : "item" \notin labels => SumOf(X!ItemTable(r), labels) = 0
<1> DEFINE m == Len(r.items)
           many == [n \in 1 .. m |-> X!Line("item", r.items[n], X!Plain)]
           rows == IF r.items = <<>> THEN X!Text(X!Centered) ELSE many
           before == X!BoldRow("SL", 0) \o X!Divider
           all == before \o rows \o X!Divider
<1>1. /\ r.items \in Seq(Nat) /\ m \in Nat /\ \A n \in 1 .. m : r.items[n] \in Nat
      /\ DOMAIN r.items = 1 .. m
    BY AnswerIs
<1>2. \A n \in 1 .. m : /\ X!Line("item", r.items[n], X!Plain) \in ReceiptLine
                        /\ X!Line("item", r.items[n], X!Plain).label = "item"
                        /\ X!Line("item", r.items[n], X!Plain).amount = r.items[n]
  <2>1. "item" \in Labels
    BY DEF Labels
  <2> QED
    BY <1>1, <2>1, StylesOfLines, LineIs
<1>3. r.subtotal = SumFunctionOnSet(r.items, 1 .. m)
  <2>1. X!SumFunction(r.items) = SumFunctionOnSet(r.items, DOMAIN r.items)
    BY DEF X!SumFunction, X!SumFunctionOnSet, SumFunctionOnSet, X!FoldFunctionOnSet, FoldFunctionOnSet,
           X!MapThenFoldSet, MapThenFoldSet
  <2> QED
    BY <1>1, <2>1, AnswerIs
<1> HIDE DEF m
<1>4. many \in Seq(ReceiptLine) /\ Len(many) = m
    BY <1>1, <1>2
<1>5. \A n \in 1 .. m : many[n].label = "item" /\ many[n].amount = r.items[n]
    BY <1>2
<1> HIDE DEF many
<1>6. SumOf(many, {"item"}) = r.subtotal
  <2> DEFINE f == [n \in 1 .. Len(many) |-> IF many[n].label \in {"item"} THEN many[n].amount ELSE 0]
  <2>1. SumOf(many, {"item"}) = SumFunctionOnSet(f, 1 .. m)
    BY <1>4 DEF SumOf
  <2>2. \A n \in 1 .. m : f[n] \in Int /\ r.items[n] = f[n]
    BY <1>1, <1>4, <1>5
  <2>3. IsFiniteSet(1 .. m)
    BY <1>1, FS_Interval
  <2> HIDE DEF f
  <2>4. SumFunctionOnSet(f, 1 .. m) = SumFunctionOnSet(r.items, 1 .. m)
    BY <2>2, <2>3, SumSame
  <2> QED
    BY <1>3, <2>1, <2>4
<1>7. \A labels \in SUBSET Counted : "item" \notin labels => SumOf(many, labels) = 0
    BY <1>4, <1>5, SumOfOthers
<1>8. X!Text(X!Centered) \in Uncounted /\ X!Divider \in Uncounted /\ X!BoldRow("SL", 0) \in Uncounted
    BY StylesOfLines, UncountedRows
<1>9. before \in Uncounted
    BY <1>8, UncountedConcat
<1>10. {"item"} \in SUBSET Counted
    BY DEF Counted
<1>11. r.items = <<>> => r.subtotal = 0
  <2> SUFFICES ASSUME r.items = <<>> PROVE r.subtotal = 0
    OBVIOUS
  <2>1. 1 .. m = {}
    BY DEF m
  <2> QED
    BY <1>3, <2>1, SumEmpty
<1>12. /\ rows \in Seq(ReceiptLine) /\ SumOf(rows, {"item"}) = r.subtotal
       /\ \A labels \in SUBSET Counted : "item" \notin labels => SumOf(rows, labels) = 0
    BY <1>4, <1>6, <1>7, <1>8, <1>10, <1>11 DEF Uncounted
<1>13. X!ItemTable(r) = all
    BY DEF X!ItemTable, many, m
<1> HIDE DEF before, rows
<1>14. /\ before \o rows \in Seq(ReceiptLine) /\ all \in Seq(ReceiptLine)
       /\ \A labels : SumOf(before \o rows, labels) = SumOf(before, labels) + SumOf(rows, labels)
       /\ \A labels : SumOf(all, labels) = SumOf(before \o rows, labels) + SumOf(X!Divider, labels)
  <2>1. before \in Seq(ReceiptLine) /\ rows \in Seq(ReceiptLine) /\ X!Divider \in Seq(ReceiptLine)
    BY <1>8, <1>9, <1>12 DEF Uncounted
  <2>2. /\ before \o rows \in Seq(ReceiptLine)
        /\ \A labels : SumOf(before \o rows, labels) = SumOf(before, labels) + SumOf(rows, labels)
    BY <2>1, SumOfConcat
  <2> QED
    BY <2>1, <2>2, SumOfConcat
<1> HIDE DEF all
<1>15. \A labels \in SUBSET Counted :
          SumOf(before, labels) = 0 /\ SumOf(X!Divider, labels) = 0 /\ SumOf(rows, labels) \in Nat
    BY <1>8, <1>9, <1>12, SumOfIsNat DEF Uncounted
<1>16. \A labels \in SUBSET Counted : SumOf(all, labels) = SumOf(rows, labels)
    BY <1>14, <1>15
<1> QED
    BY <1>10, <1>12, <1>13, <1>14, <1>16

\* What a row of the totals adds for given labels; none if it is left out.
Share(label, amount, labels) == IF label \in labels THEN amount ELSE 0

LEMMA TotalRow ==
    ASSUME NEW label \in X!TOTAL_LABELS, NEW amount \in Nat
    PROVE  \A rows \in {X!Row(label, amount), X!BoldRow(label, amount),
                         X!When(amount > 0, X!Row(label, amount))} :
              /\ rows \in Seq(ReceiptLine)
              /\ \A labels : /\ SumOf(rows, labels) = Share(label, amount, labels)
                             /\ Share(label, amount, labels) \in Nat
<1> DEFINE row == X!Row(label, amount)
<1>1. label \in Labels
    BY DEF Labels
<1>2. /\ row \in Seq(ReceiptLine) /\ X!BoldRow(label, amount) \in Seq(ReceiptLine)
      /\ \A labels : /\ SumOf(row, labels) = Share(label, amount, labels)
                     /\ SumOf(X!BoldRow(label, amount), labels) = Share(label, amount, labels)
    BY <1>1, RowIs DEF Share
<1>3. \A labels : Share(label, amount, labels) \in Nat
    BY DEF Share
<1> HIDE DEF row
<1>4. CASE amount > 0
  <2>1. X!When(amount > 0, row) = row
    BY <1>4 DEF X!When
  <2> QED
    BY <1>2, <1>3, <2>1 DEF row
<1>5. CASE amount = 0
  <2>1. X!When(amount > 0, row) = <<>>
    BY <1>5 DEF X!When
  <2>2. \A labels : Share(label, amount, labels) = 0
    BY <1>5 DEF Share
  <2> QED
    BY <1>2, <1>3, <2>1, <2>2, SumOfNone DEF row
<1> QED
    BY <1>4, <1>5

LEMMA TotalsIs ==
    ASSUME X!Parameters, NEW r \in Answers
    PROVE  /\ X!Totals(r) \in Seq(ReceiptLine)
           /\ \A labels \in SUBSET Counted :
                SumOf(X!Totals(r), labels) =
                    Share("Subtotal", r.subtotal, labels) + Share("Discount", r.manual, labels)
                    + Share("RewardDiscount", r.reward, labels) + Share("TotalAmount", r.total, labels)
                    + Share("PaidAmount", r.cash, labels) + Share("Change", r.change, labels)
<1> DEFINE due == IF r.total > r.cash THEN r.total - r.cash ELSE 0
           a == X!BoldRow("Subtotal", r.subtotal)
           b == X!When(r.manual > 0, X!Row("Discount", r.manual))
           c == X!When(r.reward > 0, X!Row("RewardDiscount", r.reward))
           d == X!BoldRow("TotalAmount", r.total)
           e == X!Row("PaidAmount", r.cash)
           f == X!Row("DueAmount", due)
           g == X!Row("Change", r.change)
           two == a \o b
           three == two \o c
           four == three \o d
           five == four \o e
           six == five \o f
           seven == six \o g
           eight == seven \o X!Divider
           IsSum(rows, s, t) ==
              rows \in Seq(ReceiptLine) /\ \A labels : SumOf(rows, labels) = SumOf(s, labels) + SumOf(t, labels)
           IsShare(rows, label, amount) ==
              /\ rows \in Seq(ReceiptLine)
              /\ \A labels : /\ SumOf(rows, labels) = Share(label, amount, labels)
                             /\ Share(label, amount, labels) \in Nat
<1>1. /\ r.manual \in Nat /\ r.reward \in Nat /\ r.cash \in Nat /\ r.change \in Nat
      /\ r.subtotal \in Nat /\ r.total \in Nat /\ r.cash >= r.total
    BY AnswerIs
<1>2. due = 0
    BY <1>1
<1>3. {"Subtotal", "Discount", "RewardDiscount", "TotalAmount", "PaidAmount", "DueAmount", "Change"}
          \subseteq X!TOTAL_LABELS
    BY DEF X!TOTAL_LABELS
<1>4. X!Totals(r) = eight
    BY DEF X!Totals
<1> HIDE DEF due
<1>5. IsShare(a, "Subtotal", r.subtotal)
    BY <1>1, <1>3, TotalRow
<1>6. IsShare(b, "Discount", r.manual)
    BY <1>1, <1>3, TotalRow
<1>7. IsShare(c, "RewardDiscount", r.reward)
    BY <1>1, <1>3, TotalRow
<1>8. IsShare(d, "TotalAmount", r.total)
    BY <1>1, <1>3, TotalRow
<1>9. IsShare(e, "PaidAmount", r.cash)
    BY <1>1, <1>3, TotalRow
<1>10. IsShare(f, "DueAmount", due) /\ \A labels : Share("DueAmount", due, labels) = 0
  <2>1. due \in Nat
    BY <1>2
  <2>2. \A labels : Share("DueAmount", due, labels) = 0
    BY <1>2 DEF Share
  <2> QED
    BY <1>3, <2>1, <2>2, TotalRow
<1>11. IsShare(g, "Change", r.change)
    BY <1>1, <1>3, TotalRow
<1>12. X!Divider \in Seq(ReceiptLine) /\ \A labels \in SUBSET Counted : SumOf(X!Divider, labels) = 0
    BY UncountedRows DEF Uncounted
<1> HIDE DEF a, b, c, d, e, f, g
<1>13. IsSum(two, a, b)
    BY <1>5, <1>6, SumOfConcat
<1> HIDE DEF two
<1>14. IsSum(three, two, c)
    BY <1>13, <1>7, SumOfConcat
<1> HIDE DEF three
<1>15. IsSum(four, three, d)
    BY <1>14, <1>8, SumOfConcat
<1> HIDE DEF four
<1>16. IsSum(five, four, e)
    BY <1>15, <1>9, SumOfConcat
<1> HIDE DEF five
<1>17. IsSum(six, five, f)
    BY <1>16, <1>10, SumOfConcat
<1> HIDE DEF six
<1>18. IsSum(seven, six, g)
    BY <1>17, <1>11, SumOfConcat
<1> HIDE DEF seven
<1>19. IsSum(eight, seven, X!Divider)
    BY <1>18, <1>12, SumOfConcat
<1> HIDE DEF eight
<1>20. ASSUME NEW labels \in SUBSET Counted
       PROVE  SumOf(eight, labels) =
                  Share("Subtotal", r.subtotal, labels) + Share("Discount", r.manual, labels)
                  + Share("RewardDiscount", r.reward, labels) + Share("TotalAmount", r.total, labels)
                  + Share("PaidAmount", r.cash, labels) + Share("Change", r.change, labels)
  <2>1. SumOf(three, labels) = Share("Subtotal", r.subtotal, labels) + Share("Discount", r.manual, labels)
                               + Share("RewardDiscount", r.reward, labels)
    BY <1>5, <1>6, <1>7, <1>13, <1>14
  <2>2. SumOf(six, labels) = SumOf(three, labels) + Share("TotalAmount", r.total, labels)
                             + Share("PaidAmount", r.cash, labels)
    <3>1. /\ SumOf(six, labels) = SumOf(five, labels) + 0
          /\ SumOf(five, labels) = SumOf(four, labels) + Share("PaidAmount", r.cash, labels)
          /\ SumOf(four, labels) = SumOf(three, labels) + Share("TotalAmount", r.total, labels)
      BY <1>8, <1>9, <1>10, <1>15, <1>16, <1>17
    <3>2. SumOf(five, labels) \in Nat
      BY <1>16, SumOfIsNat
    <3> QED
      BY <3>1, <3>2
  <2>3. SumOf(eight, labels) = SumOf(six, labels) + Share("Change", r.change, labels)
    <3>1. /\ SumOf(eight, labels) = SumOf(seven, labels) + 0
          /\ SumOf(seven, labels) = SumOf(six, labels) + Share("Change", r.change, labels)
      BY <1>11, <1>12, <1>18, <1>19
    <3>2. SumOf(seven, labels) \in Nat
      BY <1>18, SumOfIsNat
    <3> QED
      BY <3>1, <3>2
  <2> QED
    BY <2>1, <2>2, <2>3
<1> QED
    BY <1>4, <1>19, <1>20

\* A whole receipt: only items and totals count.
LEMMA ReceiptIs ==
    ASSUME X!Parameters, NEW r \in Answers
    PROVE  /\ X!FormatReceipt(r) \in Seq(ReceiptLine)
           /\ \A labels \in SUBSET Counted :
                SumOf(X!FormatReceipt(r), labels) = SumOf(X!ItemTable(r), labels) + SumOf(X!Totals(r), labels)
<1> DEFINE a == X!Header \o X!Transaction(r)
           b == a \o X!ItemTable(r)
           c == b \o X!Totals(r)
           d == c \o X!Footer(r)
<1>1. a \in Uncounted
    BY HeaderIs, TransactionIs, UncountedConcat
<1>2. X!Footer(r) \in Uncounted
    BY FooterIs
<1>3. X!ItemTable(r) \in Seq(ReceiptLine) /\ X!Totals(r) \in Seq(ReceiptLine)
    BY ItemTableIs, TotalsIs
<1>4. a \in Seq(ReceiptLine) /\ X!Footer(r) \in Seq(ReceiptLine)
    BY <1>1, <1>2 DEF Uncounted
<1>5. X!FormatReceipt(r) = d
    BY DEF X!FormatReceipt
<1> HIDE DEF a
<1>6. /\ b \in Seq(ReceiptLine)
      /\ \A labels : SumOf(b, labels) = SumOf(a, labels) + SumOf(X!ItemTable(r), labels)
    BY <1>3, <1>4, SumOfConcat
<1> HIDE DEF b
<1>7. c \in Seq(ReceiptLine) /\ \A labels : SumOf(c, labels) = SumOf(b, labels) + SumOf(X!Totals(r), labels)
    BY <1>3, <1>6, SumOfConcat
<1> HIDE DEF c
<1>8. d \in Seq(ReceiptLine) /\ \A labels : SumOf(d, labels) = SumOf(c, labels) + SumOf(X!Footer(r), labels)
    BY <1>4, <1>7, SumOfConcat
<1> HIDE DEF d
<1>9. ASSUME NEW labels \in SUBSET Counted
      PROVE  SumOf(d, labels) = SumOf(X!ItemTable(r), labels) + SumOf(X!Totals(r), labels)
  <2>1. SumOf(a, labels) = 0 /\ SumOf(X!Footer(r), labels) = 0
    BY <1>1, <1>2 DEF Uncounted
  <2>2. SumOf(X!ItemTable(r), labels) \in Nat /\ SumOf(X!Totals(r), labels) \in Nat
    BY <1>3, SumOfIsNat
  <2>3. /\ SumOf(d, labels) = SumOf(c, labels) + 0
        /\ SumOf(c, labels) = SumOf(b, labels) + SumOf(X!Totals(r), labels)
        /\ SumOf(b, labels) = 0 + SumOf(X!ItemTable(r), labels)
    BY <1>6, <1>7, <1>8, <2>1
  <2> QED
    BY <2>2, <2>3
<1> QED
    BY <1>5, <1>8, <1>9

LEMMA ReceiptAddsUp ==
    ASSUME X!Parameters, NEW r \in Answers, NEW rows, rows = X!FormatReceipt(r)
    PROVE  /\ SumOf(rows, {"item"}) = SumOf(rows, {"Subtotal"})
           /\ SumOf(rows, {"Subtotal"}) - SumOf(rows, {"Discount", "RewardDiscount"})
                = SumOf(rows, {"TotalAmount"})
           /\ SumOf(rows, {"PaidAmount", "DueAmount"}) - SumOf(rows, {"Change"}) = SumOf(rows, {"TotalAmount"})
<1> DEFINE items == X!ItemTable(r)
           totals == X!Totals(r)
           sub == r.subtotal
           man == r.manual
           rew == r.reward
           tot == r.total
           cash == r.cash
           chg == r.change
<1>1. /\ sub \in Nat /\ man \in Nat /\ rew \in Nat /\ tot \in Nat /\ cash \in Nat /\ chg \in Nat
      /\ tot = sub - man - rew /\ chg = cash - tot
    BY AnswerIs
<1>2. /\ SumOf(items, {"item"}) = sub
      /\ \A labels \in SUBSET Counted : "item" \notin labels => SumOf(items, labels) = 0
    BY ItemTableIs
<1>3. \A labels \in SUBSET Counted :
         SumOf(totals, labels) =
            Share("Subtotal", sub, labels) + Share("Discount", man, labels)
            + Share("RewardDiscount", rew, labels) + Share("TotalAmount", tot, labels)
            + Share("PaidAmount", cash, labels) + Share("Change", chg, labels)
    BY TotalsIs
<1>4. \A labels \in SUBSET Counted : SumOf(rows, labels) = SumOf(items, labels) + SumOf(totals, labels)
    BY ReceiptIs
<1>5. /\ {"item"} \in SUBSET Counted /\ {"Subtotal"} \in SUBSET Counted
      /\ {"Discount", "RewardDiscount"} \in SUBSET Counted /\ {"TotalAmount"} \in SUBSET Counted
      /\ {"PaidAmount", "DueAmount"} \in SUBSET Counted /\ {"Change"} \in SUBSET Counted
    BY DEF Counted
<1> HIDE DEF items, totals, sub, man, rew, tot, cash, chg
<1>6. SumOf(rows, {"item"}) = sub
  <2>1. SumOf(totals, {"item"}) = 0
    BY <1>3, <1>5 DEF Share
  <2> QED
    BY <1>1, <1>2, <1>4, <1>5, <2>1
<1>7. ASSUME NEW labels \in SUBSET Counted, "item" \notin labels, SumOf(totals, labels) \in Nat
      PROVE  SumOf(rows, labels) = SumOf(totals, labels)
    BY <1>2, <1>4, <1>7
<1>8. SumOf(rows, {"Subtotal"}) = sub
  <2>1. SumOf(totals, {"Subtotal"}) = sub
    BY <1>1, <1>3, <1>5 DEF Share
  <2> QED
    BY <1>1, <1>5, <1>7, <2>1
<1>9. SumOf(rows, {"Discount", "RewardDiscount"}) = man + rew
  <2>1. SumOf(totals, {"Discount", "RewardDiscount"}) = man + rew
    BY <1>1, <1>3, <1>5 DEF Share
  <2> QED
    BY <1>1, <1>5, <1>7, <2>1
<1>10. SumOf(rows, {"TotalAmount"}) = tot
  <2>1. SumOf(totals, {"TotalAmount"}) = tot
    BY <1>1, <1>3, <1>5 DEF Share
  <2> QED
    BY <1>1, <1>5, <1>7, <2>1
<1>11. SumOf(rows, {"PaidAmount", "DueAmount"}) = cash
  <2>1. SumOf(totals, {"PaidAmount", "DueAmount"}) = cash
    BY <1>1, <1>3, <1>5 DEF Share
  <2> QED
    BY <1>1, <1>5, <1>7, <2>1
<1>12. SumOf(rows, {"Change"}) = chg
  <2>1. SumOf(totals, {"Change"}) = chg
    BY <1>1, <1>3, <1>5 DEF Share
  <2> QED
    BY <1>1, <1>5, <1>7, <2>1
<1> QED
    BY <1>1, <1>6, <1>8, <1>9, <1>10, <1>11, <1>12

-----------------------------------------------------------------------------
(* Receipt: the invariant.                                                   *)

LEMMA InitReceipt == ASSUME X!Parameters, X!Init PROVE ReceiptInv
<1>1. out = <<>> /\ out \in Seq(PrintModes) /\ Len(out) = 0
    BY DEF X!Init
<1>2. CASE \E r \in Answers : receipt = <<r>> /\ lines = X!FormatReceipt(r)
  <2>1. lines \in Seq(ReceiptLine)
    BY <1>2, ReceiptIs
  <2>2. Len(lines) \in Nat
    BY <2>1
  <2> QED
    BY <1>1, <1>2, <2>1, <2>2 DEF ReceiptInv
<1>3. CASE /\ receipt = <<>>
           /\ lines \in {<<a, b>> : a, b \in {X!Image} \cup {X!Line(X!NoText, 0, style) : style \in TextStyles}}
  <2>1. X!Image \in ReceiptLine
    BY StylesOfLines DEF X!Image, ReceiptLine, Labels
  <2>2. \A style \in TextStyles : X!Line(X!NoText, 0, style) \in ReceiptLine
    <3>1. X!NoText \in Labels /\ TextStyles \subseteq LineStyles /\ 0 \in Nat
      BY DEF X!Parameters, LineStyles, Labels
    <3> QED
      BY <3>1, LineIs
  <2>3. PICK a \in ReceiptLine, b \in ReceiptLine : lines = <<a, b>>
    BY <1>3, <2>1, <2>2
  <2>4. lines \in Seq(ReceiptLine) /\ Len(lines) = 2
    BY <2>3
  <2> QED
    BY <1>1, <1>3, <2>4 DEF ReceiptInv
<1> QED
    BY <1>2, <1>3 DEF X!Init

LEMMA SameModes ==
    ASSUME NEW a \in PrintModes, NEW b \in PrintModes,
           a.align = b.align, a.bold = b.bold, a.size = b.size, a.inverse = b.inverse
    PROVE  a = b
BY DEF PrintModes

LEMMA ResetIs ==
    /\ X!Reset \in PrintModes
    /\ X!Reset.align = "left" /\ X!Reset.bold = FALSE /\ X!Reset.size = 1 /\ X!Reset.inverse = FALSE
BY DEF X!Reset, X!Normal, PrintModes

\* Whichever way a line is printed, it comes out as asked.
LEMMA LinePrinted ==
    ASSUME NEW line \in ReceiptLine, X!AppendImage(line) \/ X!AppendMediumText(line) \/ X!AppendText(line)
    PROVE  /\ out' = Append(out, X!Asked(line)) /\ X!Asked(line) \in PrintModes
           /\ UNCHANGED <<receipt, lines>>
<1> DEFINE s == line.style
           asked == [align |-> s.align, bold |-> s.bold, size |-> IF s.large /\ ~s.medium THEN 2 ELSE 1,
                     inverse |-> s.inverse /\ ~s.medium]
<1>1. s \in LineStyles /\ (line.image => s = X!Centered)
    BY DEF ReceiptLine
<1>2. X!Asked(line) = asked
    BY DEF X!Asked
<1> HIDE DEF s
<1>3. /\ s.align \in {"left", "center"} /\ s.bold \in BOOLEAN /\ s.large \in BOOLEAN
      /\ s.medium \in BOOLEAN /\ s.inverse \in BOOLEAN
    BY <1>1 DEF LineStyles
<1>4. asked \in PrintModes
    BY <1>3 DEF PrintModes
<1>5. CASE X!AppendImage(line)
  <2>1. s.align = "center" /\ s.bold = FALSE /\ s.large = FALSE /\ s.medium = FALSE /\ s.inverse = FALSE
    BY <1>1, <1>5 DEF X!AppendImage, X!Centered, X!Plain, X!Style
  <2> DEFINE now == [X!Reset EXCEPT !.align = "center"]
  <2>2. now \in PrintModes
    BY ResetIs DEF PrintModes
  <2>3. now.align = "center" /\ now.bold = FALSE /\ now.size = 1 /\ now.inverse = FALSE
    BY ResetIs DEF PrintModes
  <2>4. out' = Append(out, now) /\ UNCHANGED <<receipt, lines>>
    BY <1>5 DEF X!AppendImage, X!Printed
  <2>5. asked.align = "center" /\ asked.bold = FALSE /\ asked.size = 1 /\ asked.inverse = FALSE
    BY <2>1
  <2> HIDE DEF now, asked
  <2>6. asked = now
    BY <1>4, <2>2, <2>3, <2>5, SameModes
  <2> QED
    BY <1>2, <1>4, <2>4, <2>6
<1>6. CASE X!AppendMediumText(line)
  <2>1. s.medium = TRUE
    BY <1>3, <1>6 DEF X!AppendMediumText, s
  <2> DEFINE now == [X!Reset EXCEPT !.align = s.align, !.bold = s.bold]
  <2>2. now \in PrintModes
    BY <1>3, ResetIs DEF PrintModes
  <2>3. now.align = s.align /\ now.bold = s.bold /\ now.size = 1 /\ now.inverse = FALSE
    BY ResetIs DEF PrintModes
  <2>4. out' = Append(out, now) /\ UNCHANGED <<receipt, lines>>
    BY <1>6 DEF X!AppendMediumText, X!Printed, s
  <2>5. asked.align = s.align /\ asked.bold = s.bold /\ asked.size = 1 /\ asked.inverse = FALSE
    BY <2>1
  <2> HIDE DEF now, asked
  <2>6. asked = now
    BY <1>4, <2>2, <2>3, <2>5, SameModes
  <2> QED
    BY <1>2, <1>4, <2>4, <2>6
<1>7. CASE X!AppendText(line)
  <2> DEFINE now == [X!Reset EXCEPT !.align = s.align,
                                    !.bold = s.bold \/ X!Reset.bold,
                                    !.size = IF s.large THEN 2 ELSE X!Reset.size,
                                    !.inverse = s.inverse \/ X!Reset.inverse]
  <2>1. s.medium = FALSE
    BY <1>3, <1>7 DEF X!AppendText, s
  <2>2. now \in PrintModes
    <3>1. (s.bold \/ X!Reset.bold) \in BOOLEAN /\ (s.inverse \/ X!Reset.inverse) \in BOOLEAN
      OBVIOUS
    <3>2. (IF s.large THEN 2 ELSE X!Reset.size) \in {1, 2}
      BY ResetIs
    <3> QED
      BY <1>3, <3>1, <3>2, ResetIs DEF PrintModes
  <2>3. /\ now.align = s.align /\ now.bold = s.bold /\ now.size = (IF s.large THEN 2 ELSE 1)
        /\ now.inverse = s.inverse
    BY <1>3, ResetIs DEF PrintModes
  <2>4. out' = Append(out, now) /\ UNCHANGED <<receipt, lines>>
    BY <1>7 DEF X!AppendText, X!Printed, s
  <2>5. /\ asked.align = s.align /\ asked.bold = s.bold /\ asked.size = (IF s.large THEN 2 ELSE 1)
        /\ asked.inverse = s.inverse
    BY <1>3, <2>1
  <2> HIDE DEF now, asked
  <2>6. asked = now
    BY <1>4, <2>2, <2>3, <2>5, SameModes
  <2> QED
    BY <1>2, <1>4, <2>4, <2>6
<1> QED
    BY <1>5, <1>6, <1>7

LEMMA NextReceipt == ASSUME X!Parameters, ReceiptInv, [X!Next]_X!vars PROVE ReceiptInv'
<1>1. CASE UNCHANGED X!vars
    BY <1>1 DEF ReceiptInv, X!vars
<1>2. CASE X!AppendLine
  <2> DEFINE n == Len(out) + 1
  <2>1. /\ lines \in Seq(ReceiptLine) /\ out \in Seq(PrintModes)
        /\ Len(out) \in Nat /\ Len(lines) \in Nat /\ Len(out) < Len(lines)
    BY <1>2 DEF X!AppendLine, ReceiptInv
  <2>2. n \in 1 .. Len(lines) /\ lines[n] \in ReceiptLine
    BY <2>1
  <2>3. X!AppendImage(lines[n]) \/ X!AppendMediumText(lines[n]) \/ X!AppendText(lines[n])
    BY <1>2 DEF X!AppendLine
  <2>4. /\ out' = Append(out, X!Asked(lines[n])) /\ X!Asked(lines[n]) \in PrintModes
        /\ UNCHANGED <<receipt, lines>>
    BY <2>2, <2>3, LinePrinted
  <2>5. /\ out' \in Seq(PrintModes) /\ Len(out') = n /\ out'[n] = X!Asked(lines[n])
        /\ \A k \in 1 .. Len(out) : out'[k] = out[k]
    BY <2>1, <2>4, AppendProperties
  <2>6. \A k \in 1 .. Len(out') : out'[k] = X!Asked(lines[k])
    BY <2>1, <2>5 DEF ReceiptInv
  <2> QED
    BY <2>1, <2>2, <2>4, <2>5, <2>6 DEF ReceiptInv
<1> QED
    BY <1>1, <1>2 DEF X!Next

\* The invariant gives what is promised.
LEMMA ReceiptOf == ASSUME X!Parameters, ReceiptInv PROVE X!LinesKeepApart /\ X!RowsAddUp /\ X!AmountsInColumns
<1>1. X!LinesKeepApart
    BY DEF X!LinesKeepApart, ReceiptInv
<1>2. X!RowsAddUp
  <2> SUFFICES ASSUME receipt # <<>>, Len(out) = Len(lines)
               PROVE  /\ X!Amount({"item"}) = X!Amount({"Subtotal"})
                      /\ X!Amount({"Subtotal"}) - X!Amount({"Discount", "RewardDiscount"})
                            = X!Amount({"TotalAmount"})
                      /\ X!Amount({"PaidAmount", "DueAmount"}) - X!Amount({"Change"})
                            = X!Amount({"TotalAmount"})
    BY DEF X!RowsAddUp
  <2>1. \E r \in Answers : lines = X!FormatReceipt(r)
    BY DEF ReceiptInv
  <2>2. \A labels : X!Amount(labels) = SumOf(lines, labels)
    BY DEF X!Amount, SumOf, X!SumFunction, X!SumFunctionOnSet, SumFunctionOnSet,
           X!FoldFunctionOnSet, FoldFunctionOnSet, X!MapThenFoldSet, MapThenFoldSet
  <2> QED
    BY <2>1, <2>2, ReceiptAddsUp
<1>3. X!AmountsInColumns
  <2>1. ASSUME NEW n \in 1 .. Len(out), lines[n].label # X!NoText PROVE X!Layout(lines[n]) # "text"
    <3>1. lines[n] \in ReceiptLine
      BY DEF ReceiptInv
    <3>2. \/ lines[n].label = "divider" \/ lines[n].label \in {"SL", "item"}
          \/ lines[n].label \in X!TOTAL_LABELS \cup X!DETAIL_LABELS
      BY <2>1, <3>1 DEF ReceiptLine, Labels
    <3> QED
      BY <3>2 DEF X!Layout
  <2> QED
    BY <2>1 DEF X!AmountsInColumns
<1> QED
    BY <1>1, <1>2, <1>3

-----------------------------------------------------------------------------
(* Catalogue: a category keeps its kind and its place below its parent, and  *)
(* requests that were checked against an older tree agree with both.         *)

Rows == [kind : G!Kinds, slug : Slugs, parent : CategoryIds \cup {0}]
\* Ids given so far; none is given again to a new category.
Known == G!There \cup gone

CatalogueTypes ==
    /\ category \in [G!There -> Rows] /\ G!There \subseteq CategoryIds
    /\ gone \subseteq CategoryIds \ G!There
    /\ \A i \in G!There : category[i].parent \in G!There \cup {0}
    /\ item \in [DOMAIN item -> [kind : G!Kinds, category : CategoryIds]]
    /\ DOMAIN item \subseteq Goods
    /\ \A x \in DOMAIN item : item[x].category \in G!There
    /\ DOMAIN filing = Sessions

\* A parent has the kind of its child, and a smaller rank.
Below(parent, kind, rank, kinds, ranks) ==
    parent # 0 => kinds[parent] = kind /\ ranks[parent] < rank
\* What a request under way may write, given the kinds and ranks of the ids.
Sound(r, given, kinds, ranks) ==
    /\ r.op \in {"create", "update", "save", "restore"} =>
           /\ r.row \in Rows /\ r.row.parent \in given \cup {0}
           /\ r.row.parent # 0 => kinds[r.row.parent] = r.row.kind
    /\ r.op \in {"update", "save", "restore"} =>
           /\ r.id \in given /\ r.row.kind = kinds[r.id]
           /\ r.row.parent # 0 => ranks[r.row.parent] < ranks[r.id]
    /\ r.op = "file" =>
           r.item \in Goods /\ r.kind \in G!Kinds /\ r.id \in given /\ kinds[r.id] = r.kind

History(kinds, ranks) ==
    /\ kinds \in [CategoryIds -> G!Kinds] /\ ranks \in [CategoryIds -> Nat]
    /\ \A i \in G!There :
         /\ category[i].kind = kinds[i]
         /\ Below(category[i].parent, kinds[i], ranks[i], kinds, ranks)
    /\ \A x \in DOMAIN item : item[x].kind = kinds[item[x].category]
    /\ \A s \in Sessions : filing[s] # <<>> => Sound(filing[s][1], Known, kinds, ranks)

CatalogueInv == CatalogueTypes /\ \E kinds, ranks : History(kinds, ranks)

LEMMA InitCatalogue == ASSUME G!Parameters, G!Init PROVE CatalogueInv
<1> DEFINE kinds == [i \in CategoryIds |-> IF i = 1 THEN "SERVICE" ELSE "PRODUCT"]
           ranks == [i \in CategoryIds |-> 0]
<1>1. /\ gone = {} /\ item = <<>> /\ DOMAIN item = {} /\ filing = [s \in Sessions |-> <<>>]
      /\ category = [i \in {1, 2} |-> [kind |-> IF i = 1 THEN "SERVICE" ELSE "PRODUCT",
                                       slug |-> CHOOSE name \in Slugs : TRUE, parent |-> 0]]
    BY DEF G!Init, G!Row
<1>2. (CHOOSE name \in Slugs : TRUE) \in Slugs
    BY DEF G!Parameters
<1>3. G!There = {1, 2} /\ {1, 2} \subseteq CategoryIds
    BY <1>1 DEF G!There, G!Parameters
<1>4. \A i \in G!There : category[i] \in Rows /\ category[i].parent = 0 /\ category[i].kind = kinds[i]
    BY <1>1, <1>2, <1>3 DEF Rows, G!Kinds
<1>5. category \in [G!There -> Rows]
    BY <1>1, <1>3, <1>4
<1>6. CatalogueTypes
  <2>1. item \in [DOMAIN item -> [kind : G!Kinds, category : CategoryIds]]
    BY <1>1
  <2> QED
    BY <1>1, <1>3, <1>4, <1>5, <2>1 DEF CatalogueTypes
<1>7. kinds \in [CategoryIds -> G!Kinds] /\ ranks \in [CategoryIds -> Nat]
    BY DEF G!Kinds
<1> HIDE DEF kinds, ranks
<1>8. History(kinds, ranks)
    BY <1>1, <1>4, <1>7 DEF History, Below
<1> QED
    BY <1>6, <1>8 DEF CatalogueInv

\* A request keeps sense when ids are added and given ones keep their kind and rank.
LEMMA SoundLater ==
    ASSUME NEW r, NEW given, NEW kinds, NEW ranks, NEW given2, NEW kinds2, NEW ranks2,
           given \subseteq given2, \A i \in given : kinds2[i] = kinds[i] /\ ranks2[i] = ranks[i],
           Sound(r, given, kinds, ranks)
    PROVE  Sound(r, given2, kinds2, ranks2)
BY DEF Sound

\* A step that only asks: the request fits the tree as it is.
LEMMA AskStep ==
    ASSUME CatalogueInv, UNCHANGED <<category, gone, item>>, NEW s \in Sessions, NEW r,
           filing' = [filing EXCEPT ![s] = <<r>>],
           \A kinds, ranks : History(kinds, ranks) => Sound(r, Known, kinds, ranks)
    PROVE  CatalogueInv'
<1>1. CatalogueTypes
    BY DEF CatalogueInv
<1>2. G!There' = G!There /\ Known' = Known
    BY DEF G!There, Known
<1>3. CatalogueTypes'
    BY <1>1, <1>2 DEF CatalogueTypes
<1>4. PICK kinds, ranks : History(kinds, ranks)
    BY DEF CatalogueInv
<1>5. ASSUME NEW t \in Sessions, filing'[t] # <<>> PROVE Sound(filing'[t][1], Known, kinds, ranks)
  <2>1. CASE t = s
    <3>1. filing'[t] = <<r>>
      BY <1>1, <2>1 DEF CatalogueTypes
    <3> QED
      BY <1>4, <3>1
  <2>2. CASE t # s
    <3>1. filing'[t] = filing[t]
      BY <1>1, <2>2 DEF CatalogueTypes
    <3> QED
      BY <1>4, <1>5, <3>1 DEF History
  <2> QED
    BY <2>1, <2>2
<1>6. History(kinds, ranks)'
    BY <1>2, <1>4, <1>5 DEF History
<1> QED
    BY <1>3, <1>6 DEF CatalogueInv

\* What a step leaves written keeps given ids their kind and rank, and fits the
\* new kinds and ranks.
Written(kinds, ranks, kinds2, ranks2) ==
    /\ \A i \in Known : kinds2[i] = kinds[i] /\ ranks2[i] = ranks[i]
    /\ kinds2 \in [CategoryIds -> G!Kinds] /\ ranks2 \in [CategoryIds -> Nat]
    /\ \A i \in G!There' :
          /\ category'[i].kind = kinds2[i]
          /\ Below(category'[i].parent, kinds2[i], ranks2[i], kinds2, ranks2)
    /\ \A x \in DOMAIN item' : item'[x].kind = kinds2[item'[x].category]

\* A step that ends a request and may write.
LEMMA WriteStep ==
    ASSUME CatalogueInv, NEW s \in Sessions, filing' = [filing EXCEPT ![s] = <<>>],
           CatalogueTypes', Known \subseteq Known',
           NEW kinds, NEW ranks, History(kinds, ranks), NEW kinds2, NEW ranks2,
           Written(kinds, ranks, kinds2, ranks2)
    PROVE  CatalogueInv'
<1>1. ASSUME NEW t \in Sessions, filing'[t] # <<>> PROVE Sound(filing'[t][1], Known', kinds2, ranks2)
  <2>1. DOMAIN filing = Sessions
    BY DEF CatalogueInv, CatalogueTypes
  <2>2. filing'[t] = filing[t] /\ filing[t] # <<>>
    BY <1>1, <2>1
  <2>3. Sound(filing[t][1], Known, kinds, ranks)
    BY <2>2 DEF History
  <2> QED
    BY <2>2, <2>3, SoundLater DEF Written
<1>2. History(kinds2, ranks2)'
    BY <1>1 DEF History, Written
<1> QED
    BY <1>2 DEF CatalogueInv

\* Requests that are asked or go on to their second statement.
LEMMA RequestStep ==
    ASSUME G!Parameters, CatalogueInv, NEW s \in Sessions,
           G!Create(s) \/ G!Update(s) \/ G!Select(s) \/ G!Remove(s) \/ G!File(s)
    PROVE  CatalogueInv'
<1> USE DEF G!Waits
<1>1. CatalogueTypes
    BY DEF CatalogueInv
<1>2. CASE G!Create(s)
  <2>1. UNCHANGED <<category, gone, item>>
    BY <1>2 DEF G!Create
  <2>2. PICK kind \in G!Kinds, name \in Slugs, parent \in G!There \cup {0} :
           /\ G!ParentFits(kind, parent)
           /\ filing' = [filing EXCEPT ![s] = <<[op |-> "create", row |-> G!Row(kind, name, parent)]>>]
    BY <1>2 DEF G!Create
  <2> DEFINE r == [op |-> "create", row |-> G!Row(kind, name, parent)]
  <2>3. /\ r.op = "create" /\ r.row \in Rows /\ r.row.parent = parent /\ r.row.kind = kind
        /\ parent # 0 => category[parent].kind = kind
    BY <1>1, <2>2 DEF Rows, G!Row, G!ParentFits, CatalogueTypes
  <2> HIDE DEF r
  <2>4. \A kinds, ranks : History(kinds, ranks) => Sound(r, Known, kinds, ranks)
    BY <2>3 DEF History, Sound, Known
  <2> QED
    BY <2>1, <2>2, <2>4, AskStep DEF r
<1>3. CASE G!Update(s)
  <2>1. UNCHANGED <<category, gone, item>>
    BY <1>3 DEF G!Update
  <2>2. PICK i \in G!There, name \in Slugs :
           filing' = [filing EXCEPT ![s] =
                        <<[op |-> "update", id |-> i, row |-> [category[i] EXCEPT !.slug = name]]>>]
    BY <1>3 DEF G!Update
  <2> DEFINE r == [op |-> "update", id |-> i, row |-> [category[i] EXCEPT !.slug = name]]
  <2>3. category[i] \in Rows /\ category[i].parent \in G!There \cup {0}
    BY <1>1 DEF CatalogueTypes
  <2>4. /\ r.op = "update" /\ r.id = i /\ r.row \in Rows
        /\ r.row.parent = category[i].parent /\ r.row.kind = category[i].kind
    BY <2>3 DEF Rows
  <2> HIDE DEF r
  <2>5. \A kinds, ranks : History(kinds, ranks) => Sound(r, Known, kinds, ranks)
    BY <2>3, <2>4 DEF History, Below, Sound, Known
  <2> QED
    BY <2>1, <2>2, <2>5, AskStep DEF r
<1>4. CASE G!Select(s)
  <2>1. UNCHANGED <<category, gone, item>> /\ filing[s] # <<>> /\ filing[s][1].op = "update"
    BY <1>4 DEF G!Select, G!At
  <2>2. PICK next \in {"save", "restore"} :
           filing' = [filing EXCEPT ![s] =
                        <<[op |-> next, id |-> filing[s][1].id, row |-> filing[s][1].row]>>]
    BY <1>4 DEF G!Select
  <2> DEFINE r == [op |-> next, id |-> filing[s][1].id, row |-> filing[s][1].row]
  <2>3. r.op \in {"save", "restore"} /\ r.id = filing[s][1].id /\ r.row = filing[s][1].row
    OBVIOUS
  <2> HIDE DEF r
  <2>4. \A kinds, ranks : History(kinds, ranks) => Sound(r, Known, kinds, ranks)
    BY <2>1, <2>3 DEF History, Sound
  <2> QED
    BY <2>1, <2>2, <2>4, AskStep DEF r
<1>5. CASE G!Remove(s)
  <2>1. UNCHANGED <<category, gone, item>>
    BY <1>5 DEF G!Remove
  <2>2. PICK i \in G!There : filing' = [filing EXCEPT ![s] = <<[op |-> "remove", id |-> i]>>]
    BY <1>5 DEF G!Remove
  <2>3. \A kinds, ranks : Sound([op |-> "remove", id |-> i], Known, kinds, ranks)
    BY DEF Sound
  <2> QED
    BY <2>1, <2>2, <2>3, AskStep
<1>6. CASE G!File(s)
  <2>1. UNCHANGED <<category, gone, item>>
    BY <1>6 DEF G!File
  <2>2. PICK x \in Goods, kind \in G!Kinds, i \in G!There :
           /\ category[i].kind = kind
           /\ filing' = [filing EXCEPT ![s] = <<[op |-> "file", item |-> x, kind |-> kind, id |-> i]>>]
    BY <1>6 DEF G!File, G!Resolve
  <2> DEFINE r == [op |-> "file", item |-> x, kind |-> kind, id |-> i]
  <2>3. r.op = "file" /\ r.item = x /\ r.kind = kind /\ r.id = i
    OBVIOUS
  <2> HIDE DEF r
  <2>4. \A kinds, ranks : History(kinds, ranks) => Sound(r, Known, kinds, ranks)
    BY <2>2, <2>3 DEF History, Sound, Known
  <2> QED
    BY <2>1, <2>2, <2>4, AskStep DEF r
<1> QED
    BY <1>2, <1>3, <1>4, <1>5, <1>6

LEMMA WithIn ==
    ASSUME NEW f, NEW x, NEW vs, NEW v \in vs, \A y \in DOMAIN f : f[y] \in vs
    PROVE  G!With(f, x, v) \in [DOMAIN f \cup {x} -> vs]
BY DEF G!With

\* The tree as it is, for a step that ends a request without writing.
LEMMA NothingWritten ==
    ASSUME CatalogueInv, NEW s \in Sessions, filing' = [filing EXCEPT ![s] = <<>>],
           UNCHANGED <<category, gone, item>>
    PROVE  CatalogueInv'
<1>1. PICK kinds, ranks : History(kinds, ranks)
    BY DEF CatalogueInv
<1>2. G!There' = G!There /\ Known' = Known
    BY DEF G!There, Known
<1>3. CatalogueTypes'
    BY <1>2 DEF CatalogueInv, CatalogueTypes
<1>4. Written(kinds, ranks, kinds, ranks)
    BY <1>1, <1>2 DEF History, Written
<1> QED
    BY <1>1, <1>2, <1>3, <1>4, WriteStep

LEMMA InsertStep == ASSUME G!Parameters, CatalogueInv, NEW s \in Sessions, G!Insert(s) PROVE CatalogueInv'
<1> DEFINE row == filing[s][1].row
           i == CHOOSE k \in G!Fresh : TRUE
<1>1. /\ filing[s] # <<>> /\ filing[s][1].op = "create"
      /\ UNCHANGED <<gone, item>> /\ filing' = [filing EXCEPT ![s] = <<>>]
    BY DEF G!Insert, G!At, G!Ends
<1>2. CASE UNCHANGED category
    BY <1>1, <1>2, NothingWritten
<1>3. CASE G!ParentThere(row.parent) /\ G!Fresh # {} /\ category' = G!With(category, i, row)
  <2>1. CatalogueTypes
    BY DEF CatalogueInv
  <2>2. PICK kinds, ranks : History(kinds, ranks)
    BY DEF CatalogueInv
  <2>3. /\ row \in Rows /\ row.parent \in Known \cup {0}
        /\ row.parent # 0 => kinds[row.parent] = row.kind
    BY <1>1, <2>2 DEF History, Sound
  <2>4. i \in CategoryIds /\ i \notin Known /\ i # 0
    BY <1>3 DEF G!Fresh, Known, G!Parameters
  <2> HIDE DEF i
  <2>5. row.parent # 0 => row.parent \in G!There
    BY <1>3 DEF G!ParentThere
  <2> HIDE DEF row
  <2>6. DOMAIN category = G!There
    BY DEF G!There
  <2>7. /\ G!There' = G!There \cup {i} /\ category'[i] = row
        /\ \A k \in G!There : category'[k] = category[k]
        /\ category' \in [G!There \cup {i} -> Rows]
    <3>1. \A k \in DOMAIN category : category[k] \in Rows
      BY <2>1, <2>6 DEF CatalogueTypes
    <3>2. i \notin G!There
      BY <2>4 DEF Known
    <3>3. DOMAIN category' = DOMAIN category \cup {i} /\ category'[i] = row
          /\ \A k \in DOMAIN category \ {i} : category'[k] = category[k]
      BY <1>3 DEF G!With
    <3>4. category' \in [DOMAIN category \cup {i} -> Rows]
      BY <1>3, <2>3, <3>1, WithIn
    <3> QED
      BY <2>6, <3>2, <3>3, <3>4 DEF G!There
  <2>8. Known' = Known \cup {i}
    BY <1>1, <2>7 DEF Known
  <2>9. CatalogueTypes'
    <3>1. \A k \in G!There' : category'[k].parent \in G!There' \cup {0}
      BY <2>1, <2>3, <2>5, <2>7 DEF CatalogueTypes
    <3>2. DOMAIN filing' = Sessions
      BY <1>1, <2>1 DEF CatalogueTypes
    <3>3. gone' \subseteq CategoryIds \ G!There' /\ G!There' \subseteq CategoryIds
      BY <1>1, <2>1, <2>4, <2>7 DEF CatalogueTypes, Known
    <3>4. \A x \in DOMAIN item' : item'[x].category \in G!There'
      BY <1>1, <2>1, <2>7 DEF CatalogueTypes
    <3> QED
      BY <1>1, <2>1, <2>7, <3>1, <3>2, <3>3, <3>4 DEF CatalogueTypes
  <2> DEFINE rank == IF row.parent = 0 THEN 0 ELSE ranks[row.parent] + 1
             kinds2 == [kinds EXCEPT ![i] = row.kind]
             ranks2 == [ranks EXCEPT ![i] = rank]
  <2>10. kinds \in [CategoryIds -> G!Kinds] /\ ranks \in [CategoryIds -> Nat]
    BY <2>2 DEF History
  <2>11. row.parent # 0 => row.parent \in CategoryIds
    BY <2>1, <2>5 DEF CatalogueTypes
  <2>12. row.kind \in G!Kinds /\ rank \in Nat
    BY <2>3, <2>10, <2>11 DEF Rows
  <2>13. row.parent # 0 => ranks[row.parent] < rank
    BY <2>10, <2>11
  <2> HIDE DEF rank
  <2>14. /\ kinds2 \in [CategoryIds -> G!Kinds] /\ ranks2 \in [CategoryIds -> Nat]
         /\ kinds2[i] = row.kind /\ ranks2[i] = rank
         /\ \A k \in CategoryIds \ {i} : kinds2[k] = kinds[k] /\ ranks2[k] = ranks[k]
    BY <2>4, <2>10, <2>12
  <2> HIDE DEF kinds2, ranks2
  <2>15. \A k \in Known : kinds2[k] = kinds[k] /\ ranks2[k] = ranks[k]
    BY <2>1, <2>4, <2>14 DEF Known, CatalogueTypes
  <2>16. ASSUME NEW k \in G!There'
         PROVE  /\ category'[k].kind = kinds2[k]
                /\ Below(category'[k].parent, kinds2[k], ranks2[k], kinds2, ranks2)
    <3>1. CASE k = i
      BY <2>3, <2>5, <2>7, <2>13, <2>14, <2>15, <3>1 DEF Below, Known
    <3>2. CASE k \in G!There
      <4>1. /\ category[k].kind = kinds[k] /\ category[k].parent \in G!There \cup {0}
            /\ Below(category[k].parent, kinds[k], ranks[k], kinds, ranks)
        BY <2>1, <2>2, <3>2 DEF History, CatalogueTypes
      <4> QED
        BY <2>7, <2>15, <3>2, <4>1 DEF Below, Known
    <3> QED
      BY <2>7, <3>1, <3>2
  <2>17. \A x \in DOMAIN item' : item'[x].kind = kinds2[item'[x].category]
    BY <1>1, <2>1, <2>2, <2>15 DEF History, CatalogueTypes, Known
  <2>18. Known \subseteq Known'
    BY <2>8
  <2>19. kinds2 \in [CategoryIds -> G!Kinds] /\ ranks2 \in [CategoryIds -> Nat]
    BY <2>14
  <2>20. Written(kinds, ranks, kinds2, ranks2)
    BY <2>15, <2>16, <2>17, <2>19 DEF Written
  <2> QED
    BY <1>1, <2>2, <2>9, <2>18, <2>20, WriteStep
<1> QED
    BY <1>2, <1>3 DEF G!Insert

\* Save, Restore, Delete and Filed leave every id its kind and rank.
LEMMA SameHistory ==
    ASSUME CatalogueInv, NEW s \in Sessions, filing' = [filing EXCEPT ![s] = <<>>],
           CatalogueTypes', Known \subseteq Known', NEW kinds, NEW ranks, History(kinds, ranks),
           \A i \in G!There' :
              /\ category'[i].kind = kinds[i]
              /\ Below(category'[i].parent, kinds[i], ranks[i], kinds, ranks),
           \A x \in DOMAIN item' : item'[x].kind = kinds[item'[x].category]
    PROVE  CatalogueInv'
<1>1. Written(kinds, ranks, kinds, ranks)
    BY DEF History, Written
<1> QED
    BY <1>1, WriteStep

LEMMA SaveStep == ASSUME G!Parameters, CatalogueInv, NEW s \in Sessions, G!Save(s) PROVE CatalogueInv'
<1> DEFINE i == filing[s][1].id
           name == filing[s][1].row.slug
<1>1. /\ filing[s] # <<>> /\ filing[s][1].op = "save"
      /\ UNCHANGED <<gone, item>> /\ filing' = [filing EXCEPT ![s] = <<>>]
    BY DEF G!Save, G!At, G!Ends
<1>2. CASE UNCHANGED category
    BY <1>1, <1>2, NothingWritten
<1>3. CASE i \in G!There /\ category' = [category EXCEPT ![i].slug = name]
  <2>1. CatalogueTypes
    BY DEF CatalogueInv
  <2>2. PICK kinds, ranks : History(kinds, ranks)
    BY DEF CatalogueInv
  <2>3. filing[s][1].row \in Rows
    BY <1>1, <2>2 DEF History, Sound
  <2>4. name \in Slugs
    BY <2>3 DEF Rows
  <2> HIDE DEF name, i
  <2>5. category \in [G!There -> Rows]
    BY <2>1 DEF CatalogueTypes
  <2>6. category'[i] = [category[i] EXCEPT !.slug = name] /\ category[i] \in Rows
    BY <1>3, <2>5
  <2>7. category'[i] \in Rows /\ category'[i].kind = category[i].kind /\ category'[i].parent = category[i].parent
    BY <2>4, <2>6 DEF Rows
  <2>8. /\ DOMAIN category' = G!There
        /\ \A k \in G!There \ {i} : category'[k] = category[k]
    BY <1>3, <2>5
  <2>9. G!There' = G!There
    BY <2>8 DEF G!There
  <2>10. \A k \in G!There : category'[k].kind = category[k].kind /\ category'[k].parent = category[k].parent
    BY <2>7, <2>8
  <2>11. category' \in [G!There -> Rows]
    BY <1>3, <2>5, <2>7, <2>8
  <2>12. CatalogueTypes'
    BY <1>1, <2>1, <2>9, <2>10, <2>11 DEF CatalogueTypes
  <2>13. \A k \in G!There' :
            /\ category'[k].kind = kinds[k]
            /\ Below(category'[k].parent, kinds[k], ranks[k], kinds, ranks)
    BY <2>2, <2>9, <2>10 DEF History
  <2>14. \A x \in DOMAIN item' : item'[x].kind = kinds[item'[x].category]
    BY <1>1, <2>2 DEF History
  <2>15. Known \subseteq Known'
    BY <1>1, <2>9 DEF Known
  <2> QED
    BY <1>1, <2>2, <2>12, <2>13, <2>14, <2>15, SameHistory
<1> QED
    BY <1>2, <1>3 DEF G!Save

LEMMA RestoreStep == ASSUME G!Parameters, CatalogueInv, NEW s \in Sessions, G!Restore(s) PROVE CatalogueInv'
<1> DEFINE i == filing[s][1].id
           row == filing[s][1].row
<1>1. /\ filing[s] # <<>> /\ filing[s][1].op = "restore"
      /\ UNCHANGED item /\ filing' = [filing EXCEPT ![s] = <<>>]
    BY DEF G!Restore, G!At, G!Ends
<1>2. CASE UNCHANGED <<category, gone>>
    BY <1>1, <1>2, NothingWritten
<1>3. CASE /\ i \notin G!There /\ G!ParentThere(row.parent)
           /\ category' = G!With(category, i, row) /\ gone' = gone \ {i}
  <2>1. CatalogueTypes
    BY DEF CatalogueInv
  <2>2. PICK kinds, ranks : History(kinds, ranks)
    BY DEF CatalogueInv
  <2>3. /\ row \in Rows /\ i \in Known /\ row.kind = kinds[i]
        /\ row.parent # 0 => kinds[row.parent] = row.kind /\ ranks[row.parent] < ranks[i]
    BY <1>1, <2>2 DEF History, Sound
  <2> HIDE DEF i
  <2>4. row.parent # 0 => row.parent \in G!There
    BY <1>3 DEF G!ParentThere
  <2> HIDE DEF row
  <2>5. DOMAIN category = G!There
    BY DEF G!There
  <2>6. /\ G!There' = G!There \cup {i} /\ category'[i] = row
        /\ \A k \in G!There : category'[k] = category[k]
        /\ category' \in [G!There \cup {i} -> Rows]
    <3>1. \A k \in DOMAIN category : category[k] \in Rows
      BY <2>1, <2>5 DEF CatalogueTypes
    <3>2. DOMAIN category' = DOMAIN category \cup {i} /\ category'[i] = row
          /\ \A k \in DOMAIN category \ {i} : category'[k] = category[k]
      BY <1>3 DEF G!With
    <3>3. category' \in [DOMAIN category \cup {i} -> Rows]
      BY <1>3, <2>3, <3>1, WithIn
    <3> QED
      BY <1>3, <2>5, <3>2, <3>3 DEF G!There
  <2>7. Known' = Known
    BY <1>3, <2>3, <2>6 DEF Known
  <2>8. CatalogueTypes'
    <3>1. \A k \in G!There' : category'[k].parent \in G!There' \cup {0}
      BY <2>1, <2>3, <2>4, <2>6 DEF CatalogueTypes
    <3>2. DOMAIN filing' = Sessions
      BY <1>1, <2>1 DEF CatalogueTypes
    <3>3. gone' \subseteq CategoryIds \ G!There' /\ G!There' \subseteq CategoryIds
      BY <1>3, <2>1, <2>3, <2>6 DEF CatalogueTypes, Known
    <3>4. \A x \in DOMAIN item' : item'[x].category \in G!There'
      BY <1>1, <2>1, <2>6 DEF CatalogueTypes
    <3> QED
      BY <1>1, <2>1, <2>6, <3>1, <3>2, <3>3, <3>4 DEF CatalogueTypes
  <2>9. \A k \in G!There' :
           /\ category'[k].kind = kinds[k]
           /\ Below(category'[k].parent, kinds[k], ranks[k], kinds, ranks)
    BY <2>2, <2>3, <2>6 DEF History, Below
  <2>10. \A x \in DOMAIN item' : item'[x].kind = kinds[item'[x].category]
    BY <1>1, <2>2 DEF History
  <2> QED
    BY <1>1, <2>2, <2>7, <2>8, <2>9, <2>10, SameHistory
<1> QED
    BY <1>2, <1>3 DEF G!Restore

LEMMA DeleteStep == ASSUME G!Parameters, CatalogueInv, NEW s \in Sessions, G!Delete(s) PROVE CatalogueInv'
<1> DEFINE i == filing[s][1].id
<1>1. UNCHANGED item /\ filing' = [filing EXCEPT ![s] = <<>>]
    BY DEF G!Delete, G!Ends
<1>2. CASE UNCHANGED <<category, gone>>
    BY <1>1, <1>2, NothingWritten
<1>3. CASE /\ i \in G!There /\ ~G!Referenced(i)
           /\ category' = G!Restrict(category, G!There \ {i}) /\ gone' = gone \cup {i}
  <2>1. CatalogueTypes
    BY DEF CatalogueInv
  <2>2. PICK kinds, ranks : History(kinds, ranks)
    BY DEF CatalogueInv
  <2> HIDE DEF i
  <2>3. category' = [k \in G!There \ {i} |-> category[k]]
    BY <1>3 DEF G!Restrict
  <2>4. /\ G!There' = G!There \ {i} /\ \A k \in G!There' : category'[k] = category[k]
        /\ category' \in [G!There' -> Rows]
    <3>1. G!There' = G!There \ {i}
      BY <2>3 DEF G!There
    <3>2. \A k \in G!There : category[k] \in Rows
      BY <2>1 DEF CatalogueTypes
    <3> QED
      BY <2>3, <3>1, <3>2
  <2>5. Known' = Known
    BY <1>3, <2>4 DEF Known
  <2>6. /\ \A k \in G!There : category[k].parent # i
        /\ \A x \in DOMAIN item : item[x].category # i
    BY <1>3 DEF G!Referenced
  <2>7. CatalogueTypes'
    <3>1. \A k \in G!There' : category'[k].parent \in G!There' \cup {0}
      BY <2>1, <2>4, <2>6 DEF CatalogueTypes
    <3>2. DOMAIN filing' = Sessions
      BY <1>1, <2>1 DEF CatalogueTypes
    <3>3. gone' \subseteq CategoryIds \ G!There' /\ G!There' \subseteq CategoryIds
      BY <1>3, <2>1, <2>4 DEF CatalogueTypes
    <3>4. \A x \in DOMAIN item' : item'[x].category \in G!There'
      BY <1>1, <2>1, <2>4, <2>6 DEF CatalogueTypes
    <3> QED
      BY <1>1, <2>1, <2>4, <3>1, <3>2, <3>3, <3>4 DEF CatalogueTypes
  <2>8. \A k \in G!There' :
           /\ category'[k].kind = kinds[k]
           /\ Below(category'[k].parent, kinds[k], ranks[k], kinds, ranks)
    BY <2>2, <2>4 DEF History
  <2>9. \A x \in DOMAIN item' : item'[x].kind = kinds[item'[x].category]
    BY <1>1, <2>2 DEF History
  <2> QED
    BY <1>1, <2>2, <2>5, <2>7, <2>8, <2>9, SameHistory
<1> QED
    BY <1>2, <1>3 DEF G!Delete

LEMMA FiledStep == ASSUME G!Parameters, CatalogueInv, NEW s \in Sessions, G!Filed(s) PROVE CatalogueInv'
<1> DEFINE new == filing[s][1]
           row == [kind |-> new.kind, category |-> new.id]
<1>1. /\ filing[s] # <<>> /\ new.op = "file"
      /\ UNCHANGED <<category, gone>> /\ filing' = [filing EXCEPT ![s] = <<>>]
    BY DEF G!Filed, G!At, G!Ends
<1>2. CASE UNCHANGED item
    BY <1>1, <1>2, NothingWritten
<1>3. CASE new.id \in G!There /\ item' = G!With(item, new.item, row)
  <2>1. CatalogueTypes
    BY DEF CatalogueInv
  <2>2. PICK kinds, ranks : History(kinds, ranks)
    BY DEF CatalogueInv
  <2>3. new.item \in Goods /\ new.kind \in G!Kinds /\ new.id \in Known /\ kinds[new.id] = new.kind
    BY <1>1, <2>2 DEF History, Sound
  <2> HIDE DEF new
  <2>4. G!There' = G!There /\ Known' = Known
    BY <1>1 DEF G!There, Known
  <2>5. row.kind = new.kind /\ row.category = new.id /\ row \in [kind : G!Kinds, category : CategoryIds]
    BY <1>3, <2>1, <2>3 DEF CatalogueTypes
  <2> HIDE DEF row
  <2>6. /\ DOMAIN item' = DOMAIN item \cup {new.item} /\ item'[new.item] = row
        /\ \A x \in DOMAIN item \ {new.item} : item'[x] = item[x]
    BY <1>3 DEF G!With
  <2>7. item' \in [DOMAIN item' -> [kind : G!Kinds, category : CategoryIds]]
    <3>1. \A x \in DOMAIN item : item[x] \in [kind : G!Kinds, category : CategoryIds]
      BY <2>1 DEF CatalogueTypes
    <3>2. item' \in [DOMAIN item \cup {new.item} -> [kind : G!Kinds, category : CategoryIds]]
      BY <1>3, <2>5, <3>1, WithIn
    <3> QED
      BY <2>6, <3>2
  <2>8. CatalogueTypes'
    <3>1. \A x \in DOMAIN item' : item'[x].category \in G!There'
      BY <1>3, <2>1, <2>4, <2>5, <2>6 DEF CatalogueTypes
    <3>2. DOMAIN filing' = Sessions
      BY <1>1, <2>1 DEF CatalogueTypes
    <3> QED
      BY <1>1, <2>1, <2>3, <2>4, <2>6, <2>7, <3>1, <3>2 DEF CatalogueTypes
  <2>9. \A k \in G!There' :
           /\ category'[k].kind = kinds[k]
           /\ Below(category'[k].parent, kinds[k], ranks[k], kinds, ranks)
    BY <1>1, <2>2, <2>4 DEF History
  <2>10. \A x \in DOMAIN item' : item'[x].kind = kinds[item'[x].category]
    BY <2>2, <2>3, <2>5, <2>6 DEF History
  <2> QED
    BY <1>1, <2>2, <2>4, <2>8, <2>9, <2>10, SameHistory
<1> QED
    BY <1>2, <1>3 DEF G!Filed

LEMMA NextCatalogue == ASSUME G!Parameters, CatalogueInv, [G!Next]_G!vars PROVE CatalogueInv'
<1>1. CASE UNCHANGED G!vars
  <2>1. UNCHANGED <<category, gone, item, filing>>
    BY <1>1 DEF G!vars
  <2>2. G!There' = G!There /\ Known' = Known
    BY <2>1 DEF G!There, Known
  <2>3. CatalogueTypes'
    BY <2>1, <2>2 DEF CatalogueInv, CatalogueTypes
  <2>4. PICK kinds, ranks : History(kinds, ranks)
    BY DEF CatalogueInv
  <2>5. History(kinds, ranks)'
    BY <2>1, <2>2, <2>4 DEF History
  <2> QED
    BY <2>3, <2>5 DEF CatalogueInv
<1> QED
    BY <1>1, RequestStep, InsertStep, SaveStep, RestoreStep, DeleteStep, FiledStep DEF G!Next

-----------------------------------------------------------------------------
(* Catalogue: a category is above an item if and only if the item's category *)
(* is below it.                                                              *)

Up(c) ==
    {j \in G!There : \A ids \in SUBSET G!There :
        c \in ids /\ (\A k \in ids : category[k].parent \in ids \cup {0}) => j \in ids}

LEMMA AboveIffBelow ==
    ASSUME G!Parameters, CatalogueTypes, NEW c \in G!There, NEW i \in G!There
    PROVE  i \in Up(c) <=> c \in G!CollectIds(i)
<1>1. 0 \notin G!There /\ \A k \in G!There : category[k].parent \in G!There \cup {0}
    BY DEF CatalogueTypes, G!Parameters
<1>2. ASSUME i \in Up(c), NEW ids \in SUBSET G!There, i \in ids, \A k \in ids : G!Children(k) \subseteq ids,
             c \notin ids
      PROVE  FALSE
  <2> DEFINE rest == G!There \ ids
  <2>1. \A k \in rest : category[k].parent \in rest \cup {0}
    BY <1>1, <1>2 DEF G!Children
  <2>2. i \in rest
    BY <1>2, <2>1 DEF Up
  <2> QED
    BY <1>2, <2>2
<1>3. ASSUME c \in G!CollectIds(i), NEW ids \in SUBSET G!There, c \in ids,
             \A k \in ids : category[k].parent \in ids \cup {0}, i \notin ids
      PROVE  FALSE
  <2> DEFINE rest == G!There \ ids
  <2>1. \A k \in rest : G!Children(k) \subseteq rest
    BY <1>1, <1>3 DEF G!Children
  <2>2. c \in rest
    BY <1>3, <2>1 DEF G!CollectIds
  <2> QED
    BY <1>3, <2>2
<1>4. i \in Up(c) => c \in G!CollectIds(i)
    BY <1>2 DEF G!CollectIds
<1>5. c \in G!CollectIds(i) => i \in Up(c)
    BY <1>3 DEF Up
<1> QED
    BY <1>4, <1>5

\* The categories above c are of its kind, and one of them has no parent.
LEMMA AboveKind ==
    ASSUME CatalogueInv, NEW c \in G!There, NEW i \in Up(c)
    PROVE  category[i].kind = category[c].kind
<1>1. PICK kinds, ranks : History(kinds, ranks)
    BY DEF CatalogueInv
<1> DEFINE ids == {k \in G!There : category[k].kind = category[c].kind}
<1>2. ASSUME NEW k \in ids PROVE category[k].parent \in ids \cup {0}
    BY <1>1 DEF History, Below, CatalogueInv, CatalogueTypes
<1> QED
    BY <1>2 DEF Up

LEMMA RootAbove ==
    ASSUME CatalogueInv, NEW c \in G!There
    PROVE  \E i \in Up(c) : category[i].parent = 0
<1>1. PICK kinds, ranks : History(kinds, ranks)
    BY DEF CatalogueInv
<1>2. c \in Up(c) /\ Up(c) \subseteq G!There
    BY DEF Up
<1>3. \A i \in Up(c) : category[i].parent \in Up(c) \cup {0}
    BY DEF Up, CatalogueInv, CatalogueTypes
<1> DEFINE heights == {ranks[i] : i \in Up(c)}
<1>4. heights \subseteq Nat /\ heights # {}
    BY <1>1, <1>2 DEF History, CatalogueInv, CatalogueTypes
<1>5. PICK least \in heights : \A h \in heights : least <= h
    BY <1>4, LeastNumber
<1>6. PICK i \in Up(c) : ranks[i] = least
    BY <1>5
<1>7. ASSUME category[i].parent # 0 PROVE FALSE
  <2>1. category[i].parent \in Up(c) /\ ranks[category[i].parent] < ranks[i]
    BY <1>1, <1>2, <1>3, <1>7 DEF History, Below
  <2>2. ranks[category[i].parent] \in heights /\ least \in Nat
    BY <1>4, <2>1
  <2>3. least <= ranks[category[i].parent] /\ ranks[i] = least
    BY <1>5, <1>6, <2>2
  <2>4. ranks[category[i].parent] \in Nat
    BY <1>4, <2>2
  <2> QED
    BY <2>1, <2>2, <2>3, <2>4
<1> QED
    BY <1>7

\* The invariant gives what is promised.
LEMMA CatalogueOf == ASSUME G!Parameters, CatalogueInv PROVE G!ListedWhereFiled
<1>1. CatalogueTypes
    BY DEF CatalogueInv
<1>2. PICK kinds, ranks : History(kinds, ranks)
    BY DEF CatalogueInv
<1>3. \A x \in DOMAIN item : G!Chain(x) = Up(item[x].category) /\ item[x].category \in G!There
    BY <1>1 DEF G!Chain, Up, CatalogueTypes
<1>4. \A x \in DOMAIN item : item[x].kind = category[item[x].category].kind
    BY <1>2, <1>3 DEF History
<1>5. 0 \notin G!There
    BY <1>1 DEF CatalogueTypes, G!Parameters
<1>6. ASSUME NEW x \in DOMAIN item PROVE \E i \in G!Chain(x) : category[i].parent = 0
    BY <1>3, RootAbove
<1>7. ASSUME NEW x \in DOMAIN item, NEW i \in G!Chain(x) PROVE x \in G!Listed(i, 0)
  <2>1. i \in G!There /\ i \in Up(item[x].category)
    BY <1>3 DEF Up
  <2>2. item[x].kind = category[i].kind
    BY <1>3, <1>4, <2>1, AboveKind
  <2>3. item[x].category \in G!CollectIds(i)
    BY <1>1, <1>3, <2>1, AboveIffBelow
  <2>4. G!VisibleIds(i, 0) = G!CollectIds(i)
    BY <1>5 DEF G!VisibleIds, G!Children
  <2> QED
    BY <2>2, <2>3, <2>4 DEF G!Listed
<1>8. ASSUME NEW i \in G!There, NEW child \in G!Children(i)
      PROVE  G!Listed(i, child) = {x \in DOMAIN item : child \in G!Chain(x)}
  <2>1. child \in G!There /\ category[child].parent = i /\ child # 0 /\ i # 0
    BY <1>5 DEF G!Children
  <2>2. category[child].kind = category[i].kind
    BY <1>2, <2>1 DEF History, Below
  <2>3. G!VisibleIds(i, child) = G!CollectIds(child)
    BY <2>1 DEF G!VisibleIds
  <2>4. ASSUME NEW x \in DOMAIN item
        PROVE  (item[x].kind = category[i].kind /\ item[x].category \in G!CollectIds(child))
                   <=> child \in G!Chain(x)
    <3>1. child \in G!Chain(x) <=> item[x].category \in G!CollectIds(child)
      BY <1>1, <1>3, <2>1, AboveIffBelow
    <3>2. child \in G!Chain(x) => item[x].kind = category[i].kind
      BY <1>3, <1>4, <2>2, AboveKind
    <3> QED
      BY <3>1, <3>2
  <2> QED
    BY <2>3, <2>4 DEF G!Listed
<1> QED
    BY <1>6, <1>7, <1>8 DEF G!ListedWhereFiled

-----------------------------------------------------------------------------
(* Terminal: what the tables of the interface let each role see and do.      *)

StaffSees ==
    {"products", "services", "packages", "categoryTree", "customers", "loyaltySettings",
     "product", "stockHistory", "inventoryStats", "package", "customer",
     "customerTransactions", "timeTrust"}
StaffDoes == {"checkout", "createCustomer"}

LEMMA ReadsOf ==
    ASSUME NEW names, NEW prefix, NEW roles, NEW q \in T!Reads(names, prefix, roles)
    PROVE  q.name \in names /\ q.roles = roles
BY DEF T!Reads

LEMMA HooksOf ==
    ASSUME NEW names, NEW roles, NEW prefixes, NEW single, NEW seeds,
           NEW h \in T!Hooks(names, roles, prefixes, single, seeds)
    PROVE  h.name \in names /\ h.roles = roles
BY DEF T!Hooks

LEMMA PageOf ==
    ASSUME NEW name, NEW queries, NEW offers, NEW a, NEW b
    PROVE  /\ T!Page(name, queries, offers).queries = queries
           /\ T!Page(name, queries, offers).offers = offers
           /\ T!AdminToo(T!Page(name, queries, offers), a, b).queries = queries
           /\ T!AdminToo(T!Page(name, queries, offers), a, b).offers = offers
BY DEF T!Page, T!AdminToo

\* What an open page shows and offers to the staff.
OpenFor(p) == p.queries \subseteq StaffSees /\ p.offers \subseteq StaffDoes

LEMMA OpenPagesShow == \A p \in T!OpenPages : OpenFor(p)
<1> USE PageOf DEF OpenFor, StaffSees, StaffDoes
<1>1. OpenFor(T!NewSalePage)
    BY DEF T!NewSalePage
<1>2. OpenFor(T!SecurityPage)
    BY DEF T!SecurityPage
<1>3. OpenFor(T!ServicesPage)
    BY DEF T!ServicesPage
<1>4. OpenFor(T!CatalogPage)
    BY DEF T!CatalogPage
<1>5. OpenFor(T!ProductDetailPage)
    BY DEF T!ProductDetailPage
<1>6. OpenFor(T!StockPage)
    BY DEF T!StockPage
<1>7. OpenFor(T!PackagesPage)
    BY DEF T!PackagesPage
<1>8. OpenFor(T!PackageDetailPage)
    BY DEF T!PackageDetailPage
<1>9. OpenFor(T!CustomersPage)
    BY DEF T!CustomersPage
<1>10. OpenFor(T!CustomerDetailPage)
    BY DEF T!CustomerDetailPage
<1> QED
    BY <1>1, <1>2, <1>3, <1>4, <1>5, <1>6, <1>7, <1>8, <1>9, <1>10 DEF T!OpenPages

\* The API answers an admin everything, and the staff what they see or do.
Answered(query) == "ADMIN" \in query.roles /\ (query.name \in StaffSees => "STAFF" \in query.roles)
Applied(hook) == "ADMIN" \in hook.roles /\ (hook.name \in StaffDoes => "STAFF" \in hook.roles)

LEMMA QueriesAnswered == \A x \in T!Queries : Answered(x)
<1> USE ReadsOf DEF Answered, StaffSees, T!Guarded, T!Anyone, T!Admin
<1>1. \A x \in T!AccountingQueries : Answered(x)
    BY DEF T!AccountingQueries, T!AccountingController
<1>2. \A x \in T!AttendanceQueries : Answered(x)
    BY DEF T!AttendanceQueries, T!AttendanceController
<1>3. \A x \in T!CategoryQueries : Answered(x)
    BY DEF T!CategoryQueries, T!CategoriesController
<1>4. \A x \in T!CustomerQueries : Answered(x)
    BY DEF T!CustomerQueries, T!CustomersController
<1>5. \A x \in T!CustomerTransactionQueries : Answered(x)
    BY DEF T!CustomerTransactionQueries, T!CustomersController
<1>6. \A x \in T!DashboardQueries : Answered(x)
    BY DEF T!DashboardQueries, T!ReportsController
<1>7. \A x \in T!EmployeeQueries : Answered(x)
    BY DEF T!EmployeeQueries, T!EmployeesController
<1>8. \A x \in T!ExpenseQueries : Answered(x)
    BY DEF T!ExpenseQueries, T!ExpensesController
<1>9. \A x \in T!InventoryQueries : Answered(x)
    BY DEF T!InventoryQueries, T!InventoryController
<1>10. \A x \in T!InventoryStatsQueries : Answered(x)
    BY DEF T!InventoryStatsQueries, T!InventoryController
<1>11. \A x \in T!LoyaltyQueries : Answered(x)
    BY DEF T!LoyaltyQueries, T!LoyaltySettingsController
<1>12. \A x \in T!PackageQueries : Answered(x)
    BY DEF T!PackageQueries, T!PackagesController
<1>13. \A x \in T!PayrollQueries : Answered(x)
    BY DEF T!PayrollQueries, T!PayPeriodsController
<1>14. \A x \in T!ProductQueries : Answered(x)
    BY DEF T!ProductQueries, T!ProductsController
<1>15. \A x \in T!PurchaseQueries : Answered(x)
    BY DEF T!PurchaseQueries, T!PurchasesController
<1>16. \A x \in T!ReportQueries : Answered(x)
    BY DEF T!ReportQueries, T!ReportsController
<1>17. \A x \in T!SalaryPaymentQueries : Answered(x)
    BY DEF T!SalaryPaymentQueries, T!PayPeriodsController, T!SalaryPaymentsController
<1>18. \A x \in T!SalonServiceQueries : Answered(x)
    BY DEF T!SalonServiceQueries, T!SalonServicesController
<1>19. \A x \in T!TimeTrustQueries : Answered(x)
    BY DEF T!TimeTrustQueries, T!TimeTrustController
<1>20. \A x \in T!TransactionQueries : Answered(x)
    BY DEF T!TransactionQueries, T!TransactionsController
<1>21. \A x \in T!UserQueries : Answered(x)
    BY DEF T!UserQueries, T!UsersController
<1> QED
    BY <1>1, <1>2, <1>3, <1>4, <1>5, <1>6, <1>7, <1>8, <1>9, <1>10, <1>11, <1>12, <1>13,
       <1>14, <1>15, <1>16, <1>17, <1>18, <1>19, <1>20, <1>21 DEF T!Queries

LEMMA MutationsApplied == \A x \in T!Mutations : Applied(x)
<1> USE HooksOf DEF Applied, StaffDoes, T!Guarded, T!Anyone, T!Admin
<1>1. \A x \in T!AccountingMutations : Applied(x)
    BY DEF T!AccountingMutations, T!AccountingController
<1>2. \A x \in T!CategoryMutations : Applied(x)
    BY DEF T!CategoryMutations, T!CategoriesController
<1>3. \A x \in T!CheckoutMutations : Applied(x)
    BY DEF T!CheckoutMutations, T!CheckoutController
<1>4. \A x \in T!CustomerMutations : Applied(x)
    BY DEF T!CustomerMutations, T!CustomersController
<1>5. \A x \in T!EmployeeMutations : Applied(x)
    BY DEF T!EmployeeMutations, T!EmployeesController
<1>6. \A x \in T!ExpenseMutations : Applied(x)
    BY DEF T!ExpenseMutations, T!ExpensesController
<1>7. \A x \in T!InventoryMutations : Applied(x)
    BY DEF T!InventoryMutations, T!InventoryController
<1>8. \A x \in T!LoyaltyMutations : Applied(x)
    BY DEF T!LoyaltyMutations, T!LoyaltySettingsController
<1>9. \A x \in T!PackageMutations : Applied(x)
    BY DEF T!PackageMutations, T!PackagesController
<1>10. \A x \in T!PayrollMutations : Applied(x)
    BY DEF T!PayrollMutations, T!PayPeriodsController
<1>11. \A x \in T!ProductMutations : Applied(x)
    BY DEF T!ProductMutations, T!ProductsController
<1>12. \A x \in T!PurchaseMutations : Applied(x)
    BY DEF T!PurchaseMutations, T!PurchasesController
<1>13. \A x \in T!SalaryPaymentMutations : Applied(x)
    BY DEF T!SalaryPaymentMutations, T!SalaryPaymentsController
<1>14. \A x \in T!SalesReturnMutations : Applied(x)
    BY DEF T!SalesReturnMutations, T!SalesReturnsController
<1>15. \A x \in T!SalonServiceMutations : Applied(x)
    BY DEF T!SalonServiceMutations, T!SalonServicesController
<1>16. \A x \in T!UserMutations : Applied(x)
    BY DEF T!UserMutations, T!UsersController
<1> QED
    BY <1>1, <1>2, <1>3, <1>4, <1>5, <1>6, <1>7, <1>8, <1>9, <1>10, <1>11, <1>12, <1>13,
       <1>14, <1>15, <1>16 DEF T!Mutations

-----------------------------------------------------------------------------
(* Terminal: the invariant.                                                  *)

Asked(version) == [by : T!Anyone, version : -1 .. version]

TerminalTypes ==
    /\ watched \in T!Queries /\ offered \in T!Mutations
    /\ session \in T!Anyone \cup {None} /\ page \in T!Pages
    /\ data \in 0 .. MaxWrites /\ needed \in 0 .. data
    /\ get = None \/ get \in Asked(data)
    /\ write = None \/ write \in Asked(data)
    /\ write # None /\ write.version = -1 => data < MaxWrites
    /\ cache = <<>> \/ \E entry \in Asked(data) : cache = <<entry>> /\ entry.version >= 0
    /\ invalid \in BOOLEAN

\* Who asks is let through.
RoleInv ==
    /\ ~forbidden
    /\ session = "STAFF" => page \in T!OpenPages
    /\ get # None => get.by \in watched.roles
    /\ write # None => write.by \in offered.roles

\* The query under way is of the session, and so is what was read.
OwnerInv ==
    /\ get # None => session # None /\ get.by = session
    /\ cache # <<>> /\ ~T!Seeded(offered, watched) => session # None /\ cache[1].by = session

\* Whatever is read or written late is not older than what the user was told.
FreshInv ==
    /\ get # None /\ get.version # -1 => get.version >= needed
    /\ write # None /\ write.version # -1 => write.version >= needed
    /\ cache # <<>> /\ ~invalid => cache[1].version >= needed

TerminalInv == TerminalTypes /\ RoleInv /\ OwnerInv /\ FreshInv

LEMMA InitTerminal == ASSUME T!Parameters, T!Init PROVE TerminalInv
<1>1. TerminalTypes
  <2>1. page \in T!Pages
    BY DEF T!Init, T!Pages, T!OpenPages
  <2>2. data \in 0 .. MaxWrites /\ needed \in 0 .. data
    BY DEF T!Init, T!Parameters
  <2> QED
    BY <2>1, <2>2 DEF T!Init, TerminalTypes
<1>2. RoleInv /\ OwnerInv /\ FreshInv
    BY DEF T!Init, T!Parameters, RoleInv, OwnerInv, FreshInv, T!Anyone
<1> QED
    BY <1>1, <1>2 DEF TerminalInv

\* A page the user may be on mounts only queries answered to the user, and
\* offers only mutations the API applies.
LEMMA MountedAnswered ==
    ASSUME NEW user \in T!Anyone, NEW p \in T!Pages, user = "STAFF" => p \in T!OpenPages,
           watched \in T!Queries, watched.name \in T!Mounted(user, p)
    PROVE  user \in watched.roles
<1>1. Answered(watched)
    BY QueriesAnswered
<1>2. CASE user = "ADMIN"
    BY <1>1, <1>2 DEF Answered
<1>3. CASE user = "STAFF"
  <2>1. watched.name \in StaffSees
    BY <1>3, OpenPagesShow DEF OpenFor, T!Mounted, T!Layout, StaffSees
  <2> QED
    BY <1>1, <1>3, <2>1 DEF Answered
<1> QED
    BY <1>2, <1>3 DEF T!Anyone

LEMMA OfferedApplied ==
    ASSUME NEW user \in T!Anyone, NEW p \in T!Pages, user = "STAFF" => p \in T!OpenPages,
           offered \in T!Mutations, offered.name \in T!OnOffer(user, p)
    PROVE  user \in offered.roles
<1>1. Applied(offered)
    BY MutationsApplied
<1>2. CASE user = "ADMIN"
    BY <1>1, <1>2 DEF Applied
<1>3. CASE user = "STAFF"
  <2>1. offered.name \in StaffDoes
    BY <1>3, OpenPagesShow DEF OpenFor, T!OnOffer
  <2> QED
    BY <1>1, <1>3, <2>1 DEF Applied
<1> QED
    BY <1>2, <1>3 DEF T!Anyone

\* Where the routes let a user go.
LEMMA LandingOpen ==
    ASSUME NEW user \in T!Anyone, NEW p \in T!Pages
    PROVE  T!Landing(user, p) \in T!Pages /\ (user = "STAFF" => T!Landing(user, p) \in T!OpenPages)
BY DEF T!Landing, T!OpenPages, T!Pages

LEMMA HomeOpen ==
    ASSUME NEW user \in T!Anyone
    PROVE  T!Home(user) \in T!Pages /\ (user = "STAFF" => T!Home(user) \in T!OpenPages)
<1>1. T!NewSalePage \in T!OpenPages /\ T!OpenPages \subseteq T!Pages /\ T!DashboardPage \in T!Pages
    BY DEF T!OpenPages, T!Pages, T!AdminPages
<1> QED
    BY <1>1 DEF T!Home

\* A query asked afresh on a page that mounts it.
LEMMA FreshQuery ==
    ASSUME NEW user \in T!Anyone, NEW d \in Nat
    PROVE  /\ T!Fresh(user) \in Asked(d) /\ T!Fresh(user).by = user
           /\ T!Fresh(user).version = -1
BY DEF T!Fresh, T!Unread, Asked

LEMMA LoginStep ==
    ASSUME T!Parameters, TerminalInv, NEW user \in T!Anyone, T!Login(user) PROVE TerminalInv'
<1>1. page' \in T!Pages /\ (user = "STAFF" => page' \in T!OpenPages)
  <2>1. page' = T!Home(user) \/ \E p \in T!Pages : page' = T!Landing(user, p)
    BY DEF T!Login, T!Related
  <2> QED
    BY <2>1, HomeOpen, LandingOpen
<1>2. UNCHANGED <<watched, offered, data, cache, invalid, write, needed, forbidden>>
      /\ session = None /\ session' = user
    BY DEF T!Login
<1>3. get = None /\ (get' = get \/ (get' = T!Fresh(user) /\ watched.name \in T!Mounted(user, page')))
    BY <1>2 DEF T!Login, T!Mount, TerminalInv, OwnerInv
<1>4. user # None /\ data \in Nat
    BY DEF T!Parameters, TerminalInv, TerminalTypes
<1>5. watched \in T!Queries
    BY DEF TerminalInv, TerminalTypes
<1>6. get' # None => get' \in Asked(data) /\ get'.by = user /\ get'.version = -1 /\ user \in watched.roles
    BY <1>1, <1>3, <1>4, <1>5, FreshQuery, MountedAnswered
<1>7. TerminalTypes'
    BY <1>1, <1>2, <1>4, <1>6 DEF TerminalInv, TerminalTypes
<1>8. RoleInv' /\ OwnerInv' /\ FreshInv'
    BY <1>1, <1>2, <1>4, <1>6 DEF TerminalInv, RoleInv, OwnerInv, FreshInv
<1> QED
    BY <1>7, <1>8 DEF TerminalInv

LEMMA EndSessionStep ==
    ASSUME T!Parameters, TerminalInv, T!Logout \/ T!Unauthorized PROVE TerminalInv'
<1>1. /\ UNCHANGED <<watched, offered, page, data, needed, forbidden>>
      /\ session' = None /\ cache' = <<>> /\ invalid' = FALSE /\ get' = None
      /\ write' = write \/ write' = None
    BY DEF T!Logout, T!Unauthorized, T!EndSession
<1>2. TerminalTypes'
    BY <1>1 DEF TerminalInv, TerminalTypes
<1>3. RoleInv' /\ OwnerInv' /\ FreshInv'
    BY <1>1 DEF TerminalInv, RoleInv, OwnerInv, FreshInv, T!Parameters, T!Anyone
<1> QED
    BY <1>2, <1>3 DEF TerminalInv

LEMMA VisitStep ==
    ASSUME T!Parameters, TerminalInv, NEW p \in T!Related, T!Visit(p) PROVE TerminalInv'
<1>1. UNCHANGED <<watched, offered, session, data, cache, invalid, write, needed, forbidden>>
      /\ session \in T!Anyone /\ session # None /\ data \in Nat /\ watched \in T!Queries
    BY DEF T!Visit, TerminalInv, TerminalTypes
<1>2. page' \in T!Pages /\ (session = "STAFF" => page' \in T!OpenPages)
    BY <1>1, LandingOpen DEF T!Visit, T!Related
<1>3. get' = get \/ (get' = T!Fresh(session) /\ watched.name \in T!Mounted(session, page'))
    BY DEF T!Visit, T!Mount
<1>4. get' = get \/ (get' \in Asked(data) /\ get'.by = session /\ get'.version = -1
                     /\ session \in watched.roles)
    BY <1>1, <1>2, <1>3, FreshQuery, MountedAnswered
<1>5. TerminalTypes'
    BY <1>1, <1>2, <1>4 DEF TerminalInv, TerminalTypes
<1>6. RoleInv' /\ OwnerInv' /\ FreshInv'
    BY <1>1, <1>2, <1>4 DEF TerminalInv, RoleInv, OwnerInv, FreshInv
<1> QED
    BY <1>5, <1>6 DEF TerminalInv

LEMMA ReloadStep == ASSUME T!Parameters, TerminalInv, T!Reload PROVE TerminalInv'
<1>1. /\ UNCHANGED <<watched, offered, session, page, needed, forbidden>>
      /\ session \in T!Anyone /\ session # None /\ data \in Nat /\ watched \in T!Queries
      /\ page \in T!Pages /\ (session = "STAFF" => page \in T!OpenPages)
      /\ cache' = <<>> /\ invalid' = FALSE /\ write' = None
    BY DEF T!Reload, TerminalInv, TerminalTypes, RoleInv
<1>2. data' = data \/ (data' = data + 1 /\ data < MaxWrites)
    BY DEF T!Reload, TerminalInv, TerminalTypes, T!Unread
<1>3. get' = None \/ (get' = T!Fresh(session) /\ watched.name \in T!Mounted(session, page))
    BY DEF T!Reload
<1>4. data' \in Nat /\ data <= data' /\ data' <= MaxWrites
    BY <1>1, <1>2 DEF TerminalInv, TerminalTypes, T!Parameters
<1>5. get' = None \/ (get' \in Asked(data') /\ get'.by = session /\ get'.version = -1
                      /\ session \in watched.roles)
    BY <1>1, <1>3, <1>4, FreshQuery, MountedAnswered
<1>6. TerminalTypes'
  <2>1. needed \in 0 .. data /\ offered \in T!Mutations
    BY DEF TerminalInv, TerminalTypes
  <2>2. needed' \in 0 .. data' /\ data' \in 0 .. MaxWrites
    BY <1>1, <1>4, <2>1
  <2> QED
    BY <1>1, <1>5, <2>1, <2>2 DEF TerminalTypes
<1>7. RoleInv' /\ OwnerInv' /\ FreshInv'
    BY <1>1, <1>5 DEF TerminalInv, RoleInv, OwnerInv, FreshInv
<1> QED
    BY <1>6, <1>7 DEF TerminalInv

LEMMA AnswerStep == ASSUME T!Parameters, TerminalInv, T!AnswerQuery PROVE TerminalInv'
<1>1. /\ UNCHANGED <<watched, offered, session, page, data, cache, invalid, write, needed, forbidden>>
      /\ get # None /\ get \in Asked(data) /\ get' = [get EXCEPT !.version = data]
    BY DEF T!AnswerQuery, TerminalInv, TerminalTypes, RoleInv
<1>2. data \in Nat /\ needed <= data
    BY DEF TerminalInv, TerminalTypes, T!Parameters
<1>3. get' \in Asked(data) /\ get'.by = get.by /\ get'.version = data
    BY <1>1, <1>2 DEF Asked
<1>4. TerminalTypes'
    BY <1>1, <1>3 DEF TerminalInv, TerminalTypes
<1>5. RoleInv' /\ OwnerInv' /\ FreshInv'
    BY <1>1, <1>2, <1>3 DEF TerminalInv, RoleInv, OwnerInv, FreshInv
<1> QED
    BY <1>4, <1>5 DEF TerminalInv

LEMMA ArriveStep == ASSUME T!Parameters, TerminalInv, T!QueryArrives PROVE TerminalInv'
<1>1. /\ UNCHANGED <<watched, offered, session, page, data, write, needed, forbidden>>
      /\ get # None /\ get.version # -1 /\ cache' = <<get>> /\ invalid' = FALSE /\ get' = None
    BY DEF T!QueryArrives, T!Unread
<1>2. data \in Nat /\ get \in Asked(data)
    BY <1>1 DEF TerminalInv, TerminalTypes, T!Parameters
<1>3. get.version >= 0
    BY <1>1, <1>2 DEF Asked
<1>4. TerminalTypes'
    BY <1>1, <1>2, <1>3 DEF TerminalInv, TerminalTypes
<1>5. RoleInv' /\ OwnerInv' /\ FreshInv'
    BY <1>1 DEF TerminalInv, RoleInv, OwnerInv, FreshInv
<1> QED
    BY <1>4, <1>5 DEF TerminalInv

LEMMA SubmitStep == ASSUME T!Parameters, TerminalInv, T!Submit PROVE TerminalInv'
<1>1. /\ UNCHANGED <<watched, offered, session, page, data, cache, invalid, get, needed, forbidden>>
      /\ session \in T!Anyone /\ data \in Nat /\ data < MaxWrites /\ offered \in T!Mutations
      /\ page \in T!Pages /\ (session = "STAFF" => page \in T!OpenPages)
      /\ offered.name \in T!OnOffer(session, page) /\ write' = T!Fresh(session)
    BY DEF T!Submit, TerminalInv, TerminalTypes, RoleInv
<1>2. write' \in Asked(data) /\ write'.by = session /\ write'.version = -1
    BY <1>1, FreshQuery
<1>3. session \in offered.roles
    BY <1>1, OfferedApplied
<1>4. TerminalTypes'
    BY <1>1, <1>2 DEF TerminalInv, TerminalTypes
<1>5. RoleInv' /\ OwnerInv' /\ FreshInv'
    BY <1>1, <1>2, <1>3 DEF TerminalInv, RoleInv, OwnerInv, FreshInv
<1> QED
    BY <1>4, <1>5 DEF TerminalInv

LEMMA ApplyStep == ASSUME T!Parameters, TerminalInv, T!ApplyWrite PROVE TerminalInv'
<1>1. /\ UNCHANGED <<watched, offered, session, page, cache, invalid, get, needed, forbidden>>
      /\ write # None /\ write.version = -1
      /\ data' = data + 1 /\ write' = [write EXCEPT !.version = data']
    BY DEF T!ApplyWrite, T!Unread, TerminalInv, RoleInv
<1>2. /\ data \in Nat /\ needed \in 0 .. data /\ data < MaxWrites /\ write \in Asked(data)
      /\ \A d \in {data, data'} : d <= data'
    BY <1>1 DEF TerminalInv, TerminalTypes, T!Parameters
<1>3. write' \in Asked(data') /\ write'.by = write.by /\ write'.version = data'
    BY <1>1, <1>2 DEF Asked
<1>4. \A entry \in Asked(data) : entry \in Asked(data')
    BY <1>1, <1>2 DEF Asked
<1>5. TerminalTypes'
  <2>1. data' \in 0 .. MaxWrites /\ needed' \in 0 .. data' /\ data' # -1
    BY <1>1, <1>2 DEF T!Parameters
  <2> QED
    BY <1>1, <1>3, <1>4, <2>1 DEF TerminalInv, TerminalTypes
<1>6. RoleInv' /\ OwnerInv' /\ FreshInv'
    BY <1>1, <1>2, <1>3 DEF TerminalInv, RoleInv, OwnerInv, FreshInv
<1> QED
    BY <1>5, <1>6 DEF TerminalInv

\* An answer that is lost, to the query or to the mutation.
LEMMA FailStep ==
    ASSUME T!Parameters, TerminalInv, T!QueryFails \/ T!WriteFails PROVE TerminalInv'
<1>1. /\ UNCHANGED <<watched, offered, session, page, data, cache, invalid, needed, forbidden>>
      /\ get' = get \/ get' = None
      /\ write' = write \/ write' = None
    BY DEF T!QueryFails, T!WriteFails
<1>2. TerminalTypes'
    BY <1>1 DEF TerminalInv, TerminalTypes
<1>3. RoleInv' /\ OwnerInv' /\ FreshInv'
    BY <1>1 DEF TerminalInv, RoleInv, OwnerInv, FreshInv
<1> QED
    BY <1>2, <1>3 DEF TerminalInv

LEMMA SucceedStep == ASSUME T!Parameters, TerminalInv, T!WriteSucceeds PROVE TerminalInv'
<1> DEFINE stale == T!Stale(offered, watched)
           seeded == T!Seeded(offered, watched)
<1>1. /\ UNCHANGED <<watched, offered, session, page, data, forbidden>>
      /\ write # None /\ write.version # -1 /\ write' = None
    BY DEF T!WriteSucceeds, T!Unread
<1>2. /\ data \in Nat /\ needed \in 0 .. data /\ write \in Asked(data) /\ watched \in T!Queries
      /\ page \in T!Pages /\ session \in T!Anyone \cup {None}
    BY <1>1 DEF TerminalInv, TerminalTypes, T!Parameters
<1>3. write.version \in 0 .. data /\ write.version >= needed
    BY <1>1, <1>2 DEF Asked, TerminalInv, FreshInv
<1>4. needed' = IF stale /\ ~T!Outdated(get', write.version) THEN write.version ELSE needed
    BY DEF T!WriteSucceeds
<1>5. needed' \in 0 .. data /\ needed' <= write.version /\ (~stale => needed' = needed)
    BY <1>2, <1>3, <1>4
<1>6. get' = IF stale /\ T!OnScreen /\ (get = None \/ cache # <<>>) THEN T!Fresh(session) ELSE get
    BY DEF T!WriteSucceeds, T!Invalidate, T!Refetch
<1>7. \/ get' = get
      \/ /\ get' \in Asked(data) /\ get'.by = session /\ get'.version = -1
         /\ session # None /\ session \in watched.roles
  <2>1. CASE stale /\ T!OnScreen /\ (get = None \/ cache # <<>>)
    <3>1. session \in T!Anyone /\ session # None /\ watched.name \in T!Mounted(session, page)
      BY <1>2, <2>1 DEF T!OnScreen
    <3>2. session = "STAFF" => page \in T!OpenPages
      BY DEF TerminalInv, RoleInv
    <3> HIDE DEF stale
    <3> QED
      BY <1>2, <1>6, <2>1, <3>1, <3>2, FreshQuery, MountedAnswered
  <2>2. CASE ~(stale /\ T!OnScreen /\ (get = None \/ cache # <<>>))
    <3> HIDE DEF stale
    <3> QED
      BY <1>6, <2>2
  <2> QED
    BY <2>1, <2>2
<1>8. \/ seeded /\ cache' = <<write>> /\ invalid' = FALSE
      \/ /\ ~seeded /\ cache' = cache /\ invalid' \in BOOLEAN
         /\ cache # <<>> /\ ~invalid' => ~invalid /\ ~stale
  <2>1. invalid \in BOOLEAN
    BY DEF TerminalInv, TerminalTypes
  <2> QED
    BY <2>1 DEF T!WriteSucceeds, T!Invalidate, T!Refetch
<1>9. seeded' = seeded
    BY <1>1 DEF T!Seeded
<1> HIDE DEF stale, seeded
<1>10. TerminalTypes'
  <2>1. /\ data' \in 0 .. MaxWrites /\ needed' \in 0 .. data' /\ offered \in T!Mutations
        /\ get = None \/ get \in Asked(data)
        /\ cache = <<>> \/ \E entry \in Asked(data) : cache = <<entry>> /\ entry.version >= 0
    BY <1>1, <1>5 DEF TerminalInv, TerminalTypes
  <2>2. cache' = <<>> \/ \E entry \in Asked(data) : cache' = <<entry>> /\ entry.version >= 0
    BY <1>2, <1>3, <1>8, <2>1
  <2>3. get' = None \/ get' \in Asked(data)
    BY <1>7, <2>1
  <2>4. invalid' \in BOOLEAN
    BY <1>8
  <2> QED
    BY <1>1, <1>2, <2>1, <2>2, <2>3, <2>4 DEF TerminalTypes
<1>11. RoleInv'
    BY <1>1, <1>7 DEF TerminalInv, RoleInv
<1>12. OwnerInv'
    BY <1>1, <1>7, <1>8, <1>9 DEF TerminalInv, OwnerInv, seeded
<1>13. FreshInv'
  <2>1. get' # None /\ get'.version # -1 => get'.version >= needed'
    <3>1. SUFFICES ASSUME get' # None, get'.version # -1 PROVE get'.version >= needed'
      OBVIOUS
    <3>2. get' = get /\ get.version >= needed /\ get \in Asked(data)
      BY <1>7, <3>1 DEF TerminalInv, TerminalTypes, FreshInv
    <3>3. get.version \in Int
      BY <1>2, <3>2 DEF Asked
    <3> QED
      BY <1>2, <1>3, <1>4, <3>1, <3>2, <3>3 DEF T!Outdated, T!Unread
  <2>2. cache' # <<>> /\ ~invalid' => cache'[1].version >= needed'
    BY <1>2, <1>3, <1>5, <1>8 DEF TerminalInv, FreshInv
  <2> QED
    BY <1>1, <2>1, <2>2 DEF FreshInv
<1> QED
    BY <1>10, <1>11, <1>12, <1>13 DEF TerminalInv

LEMMA NextTerminal == ASSUME T!Parameters, TerminalInv, [T!Next]_T!vars PROVE TerminalInv'
<1>1. CASE UNCHANGED T!vars
    BY <1>1 DEF T!vars, TerminalInv, TerminalTypes, RoleInv, OwnerInv, FreshInv
<1> QED
    BY <1>1, LoginStep, EndSessionStep, VisitStep, ReloadStep, AnswerStep, ArriveStep, SubmitStep,
       ApplyStep, FailStep, SucceedStep DEF T!Next

\* The invariant gives what is promised.
LEMMA TerminalOf ==
    ASSUME T!Parameters, TerminalInv
    PROVE  T!NeverForbidden /\ T!NoStrangersData /\ T!OwnWritesShown
BY DEF TerminalInv, TerminalTypes, RoleInv, OwnerInv, FreshInv, T!NeverForbidden,
       T!NoStrangersData, T!OwnWritesShown, T!OnScreen

-----------------------------------------------------------------------------
(* Desktop: what the settings in the file, those in memory and the database  *)
(* say of one another between any two steps.                                 *)

Notes == [initialized : BOOLEAN, pending : BOOLEAN, password : {"blank", "default"}]
Phases ==
    {"off", "settings", "mysql", "initializing", "waiting", "preparing", "prepared", "seeding",
     "credentials", "forgetting", "started", "window", "failed", "quitting"}
Seeded == \A n \in {"admin", "staff"} : users[n] = "default"

DesktopTypes ==
    /\ file = <<>> \/ \E note \in Notes : file = <<note>>
    /\ directory \in {"empty", "cut", "ready"} /\ root \in {"blank", "secret"}
    /\ granted \in 0 .. Z!Statements /\ starts \in 0 .. MaxStarts
    /\ users \in [{"admin", "staff"} -> {None, "default"}]
    /\ app \in Phases
    /\ mysqld \in BOOLEAN /\ api \in BOOLEAN /\ stop \in BOOLEAN /\ acknowledged \in BOOLEAN

\* The note: what it says is true of the database, and a password is forgotten
\* only when it has been read.
NoteInv ==
    file # <<>> =>
        /\ file[1].initialized => root = "secret"
        /\ file[1].pending => file[1].password = "default"
        /\ ~file[1].pending => acknowledged

\* From reading the settings to the end, the file holds those in memory.
MemoryInv ==
    app \notin {"off", "settings"} => known \in Notes /\ file = <<known>>

\* What each phase may rely on.
PhaseInv ==
    /\ app = "waiting" => directory # "empty" /\ (mysqld <=> directory = "ready")
    /\ app = "failed" => directory = "cut"
    /\ app = "prepared" => root = "secret"
    /\ acknowledged \/ app = "credentials" => Seeded
    /\ app \in {"forgetting", "started", "window"} => acknowledged

\* Children run only under an application that will stop them.
ChildrenInv ==
    /\ app = "off" => ~mysqld /\ ~api
    /\ app = "quitting" /\ ~stop => ~mysqld /\ ~api
    /\ app = "window" => stop

DesktopInv == DesktopTypes /\ NoteInv /\ MemoryInv /\ PhaseInv /\ ChildrenInv

LEMMA InitDesktop == ASSUME Z!Parameters, Z!Init PROVE DesktopInv
<1>1. DesktopTypes
  <2>1. users \in [{"admin", "staff"} -> {None, "default"}]
    BY DEF Z!Init
  <2>2. granted \in 0 .. Z!Statements /\ starts \in 0 .. MaxStarts
    BY DEF Z!Init, Z!Parameters, Z!Statements
  <2> QED
    BY <2>1, <2>2 DEF Z!Init, DesktopTypes, Phases
<1>2. NoteInv /\ MemoryInv /\ PhaseInv /\ ChildrenInv
    BY DEF Z!Init, NoteInv, MemoryInv, PhaseInv, ChildrenInv, Z!Parameters, Seeded
<1> QED
    BY <1>1, <1>2 DEF DesktopInv

LEMMA NextDesktop == ASSUME Z!Parameters, DesktopInv, [Z!Next]_Z!vars PROVE DesktopInv'
<1> USE DEF DesktopInv, DesktopTypes, NoteInv, MemoryInv, PhaseInv, ChildrenInv
<1>1. CASE Z!Launch
    BY <1>1 DEF Z!Launch, Z!disk, Phases, Z!Parameters, Seeded
<1>2. CASE Z!ReadOrCreateSettings
  <2>1. known' \in Notes /\ (known'.initialized => root = "secret")
           /\ (known'.pending => known'.password = "default") /\ (~known'.pending => acknowledged)
    <3>1. CASE file = <<>>
      BY <1>2, <3>1 DEF Z!ReadOrCreateSettings, Notes
    <3>2. ASSUME NEW note \in Notes, file = <<note>> PROVE <2>1!:
      <4>1. /\ note.initialized => root = "secret"
            /\ note.pending => note.password = "default"
            /\ ~note.pending => acknowledged
        BY <3>2
      <4>2. known' = IF note.pending THEN [note EXCEPT !.password = "default"] ELSE note
        BY <1>2, <3>2 DEF Z!ReadOrCreateSettings
      <4> HIDE DEF DesktopInv, NoteInv
      <4> QED
        BY <3>2, <4>1, <4>2 DEF Notes
    <3> QED
      BY <3>1, <3>2
  <2>2. file' = <<known'>>
    BY <1>2 DEF Z!ReadOrCreateSettings
  <2>3. /\ UNCHANGED <<directory, root, granted, users, mysqld, api, stop, acknowledged, starts>>
        /\ app = "settings" /\ app' = "mysql"
    BY <1>2 DEF Z!ReadOrCreateSettings
  <2> QED
    BY <2>1, <2>2, <2>3 DEF Phases, Seeded
<1>3. CASE Z!InitializeData
    BY <1>3 DEF Z!InitializeData, Phases, Seeded
<1>4. CASE Z!DataInitialized
    BY <1>4 DEF Z!DataInitialized, Phases, Seeded
<1>5. CASE Z!StartMySql
    BY <1>5 DEF Z!StartMySql, Z!disk, Phases, Seeded
<1>6. CASE Z!WaitForDatabase
  <2>1. /\ UNCHANGED <<file, directory, root, granted, users, known, mysqld, api, stop,
                        acknowledged, starts>>
        /\ app = "waiting" /\ app' \in {"preparing", "failed"}
    BY <1>6 DEF Z!WaitForDatabase, Z!disk
  <2>2. known \in Notes /\ (known.initialized => root = "secret")
    <3>1. known \in Notes /\ file = <<known>>
      BY <2>1
    <3>2. file # <<>> /\ file[1] = known
      BY <3>1
    <3> QED
      BY <3>1, <3>2
  <2>3. root \in Z!Tried
    BY <2>2 DEF Z!Tried
  <2>4. app' = "failed" => directory = "cut"
    BY <1>6, <2>1, <2>3 DEF Z!WaitForDatabase
  <2> QED
    BY <2>1, <2>4 DEF Phases, Seeded
<1>7. CASE Z!Prepare
    BY <1>7 DEF Z!Prepare, Z!Statements, Phases, Seeded
<1>8. CASE Z!SaveInitialized
  <2>1. /\ UNCHANGED <<directory, root, granted, users, mysqld, api, stop, acknowledged, starts>>
        /\ app = "prepared" /\ app' = "seeding" /\ file' = <<known'>>
        /\ known' = [known EXCEPT !.initialized = TRUE]
    BY <1>8 DEF Z!SaveInitialized
  <2>2. known \in Notes /\ file = <<known>>
    BY <2>1
  <2>3. /\ known.pending => known.password = "default"
        /\ ~known.pending => acknowledged
    BY <2>2
  <2>4. /\ known' \in Notes /\ known'.pending = known.pending
        /\ known'.password = known.password
    BY <2>1, <2>2 DEF Notes
  <2> QED
    BY <2>1, <2>2, <2>3, <2>4 DEF Phases, Seeded
<1>9. CASE Z!SeedInitialUsers
  <2>1. /\ UNCHANGED <<file, directory, root, granted, known, mysqld, stop, acknowledged, starts>>
        /\ app = "seeding"
    BY <1>9 DEF Z!SeedInitialUsers
  <2>2. known \in Notes /\ (known.pending => known.password = "default")
           /\ (~known.pending => acknowledged)
    <3>1. known \in Notes /\ file = <<known>>
      BY <2>1
    <3>2. file # <<>> /\ file[1] = known
      BY <3>1
    <3> QED
      BY <3>1, <3>2
  <2>3. CASE \E n \in {"admin", "staff"} :
               users[n] = None /\ users' = [users EXCEPT ![n] = known.password] /\ UNCHANGED <<app, api>>
    <3>1. PICK n \in {"admin", "staff"} :
             users[n] = None /\ users' = [users EXCEPT ![n] = known.password] /\ UNCHANGED <<app, api>>
      BY <2>3
    <3>2. ~acknowledged
      BY <3>1 DEF Seeded, Z!Parameters
    <3>3. known.password = "default"
      BY <2>2, <3>2
    <3>4. users' \in [{"admin", "staff"} -> {None, "default"}]
      BY <3>1, <3>3
    <3> QED
      BY <2>1, <3>1, <3>2, <3>4
  <2>4. CASE /\ users["admin"] # None /\ users["staff"] # None
             /\ api' = TRUE /\ app' = "credentials" /\ UNCHANGED users
    BY <2>1, <2>4 DEF Phases, Seeded
  <2> QED
    <3>1. 1 .. Len(Z!Logins) = {1, 2} /\ Z!Logins[1] = "admin" /\ Z!Logins[2] = "staff"
      BY DEF Z!Logins
    <3> QED
      BY <1>9, <2>3, <2>4, <3>1 DEF Z!SeedInitialUsers
<1>10. CASE Z!Acknowledge
    BY <1>10 DEF Z!Acknowledge, Z!disk, Phases, Seeded
<1>11. CASE Z!ForgetCredentials
  <2>1. /\ UNCHANGED <<directory, root, granted, users, mysqld, api, stop, acknowledged, starts>>
        /\ app = "forgetting" /\ app' = "started" /\ file' = <<known'>>
        /\ known' = [known EXCEPT !.pending = FALSE, !.password = "blank"]
    BY <1>11 DEF Z!ForgetCredentials
  <2>2. known \in Notes /\ (known.initialized => root = "secret") /\ acknowledged
    <3>1. known \in Notes /\ file = <<known>> /\ acknowledged
      BY <2>1
    <3>2. file # <<>> /\ file[1] = known
      BY <3>1
    <3> QED
      BY <3>1, <3>2
  <2>3. known' \in Notes /\ known'.initialized = known.initialized /\ known'.pending = FALSE
    BY <2>1, <2>2 DEF Notes
  <2> QED
    BY <2>1, <2>2, <2>3 DEF Phases, Seeded
<1>12. CASE Z!NothingToShow
    BY <1>12 DEF Z!NothingToShow, Z!disk, Phases, Seeded
<1>13. CASE Z!StartRenderer
    BY <1>13 DEF Z!StartRenderer, Z!disk, Phases, Seeded
<1>14. CASE Z!StartFailed
    BY <1>14 DEF Z!StartFailed, Z!disk, Phases, Seeded
<1>15. CASE Z!Close
    BY <1>15 DEF Z!Close, Z!disk, Phases, Seeded
<1>16. CASE Z!BeforeQuit
  <2>1. UNCHANGED <<file, directory, root, granted, users, acknowledged, starts>> /\ app = "quitting"
    BY <1>16 DEF Z!BeforeQuit, Z!disk
  <2>2. CASE /\ stop /\ UNCHANGED <<app, known, stop>>
             /\ mysqld' \in BOOLEAN /\ api' \in BOOLEAN
    BY <2>1, <2>2 DEF Seeded
  <2>3. CASE /\ stop => ~api /\ ~mysqld
             /\ app' = "off" /\ known' = None /\ stop' = FALSE /\ UNCHANGED <<api, mysqld>>
    BY <2>1, <2>3 DEF Phases, Seeded
  <2> QED
    BY <1>16, <2>2, <2>3 DEF Z!BeforeQuit
<1>17. CASE Z!Crash
    BY <1>17 DEF Z!Crash, Z!disk, Phases, Seeded
<1>18. CASE UNCHANGED Z!vars
    BY <1>18 DEF Z!vars, Z!disk, Seeded
<1> QED
    BY <1>1, <1>2, <1>3, <1>4, <1>5, <1>6, <1>7, <1>8, <1>9, <1>10, <1>11, <1>12, <1>13, <1>14,
       <1>15, <1>16, <1>17, <1>18 DEF Z!Next, Z!Starting

\* The invariant gives what is promised.
LEMMA DesktopOf ==
    ASSUME Z!Parameters, DesktopInv
    PROVE  Z!StartsUnlessCut /\ Z!CredentialsKnown /\ Z!NothingLeftRunning /\ Z!TypeOK
<1> USE DEF DesktopInv, DesktopTypes
<1>1. Z!StartsUnlessCut /\ Z!NothingLeftRunning
    BY DEF Z!StartsUnlessCut, Z!NothingLeftRunning, PhaseInv, ChildrenInv
<1>2. Z!CredentialsKnown
    BY DEF Z!CredentialsKnown, PhaseInv, NoteInv, Seeded
<1>3. Z!TypeOK
    BY DEF Z!TypeOK, Notes
<1> QED
    BY <1>1, <1>2, <1>3

-----------------------------------------------------------------------------
(* The theorems.                                                            *)

\* Invoice numbers of a day leave no gap, in the shop.
THEOREM NumbersOfTheShop == ShopSpec => []NumbersConsecutive
<1> DEFINE Inv == focus = "sales" => S!NumberInv
<1>1. ShopInit => Inv
    BY ShopParameters, S!InitNumbers DEF ShopInit
<1>2. Inv /\ [ShopNext]_shopVars => Inv'
    BY ShopParameters, SalesStep, S!NextNumbers
<1>3. Inv => NumbersConsecutive
    BY S!InitialIsConsecutive DEF S!NumberInv, NumbersConsecutive
<1> QED
    BY <1>1, <1>2, <1>3, PTL DEF ShopSpec

\* The row of a customer follows the sales, and its tier the settings, if
\* requests on one customer do not overlap and all settings earn at one rate.
THEOREM AccountsOfTheShop == ASSUME SteadyAccounts PROVE ShopSpec => []AccountsFollowSales
<1> DEFINE Inv == focus = "sales" => S!AccountInv
<1>1. ShopInit => Inv
    BY ShopParameters, S!InitAccounts DEF ShopInit
<1>2. Inv /\ [ShopNext]_shopVars => Inv'
    BY ShopParameters, SalesStep, S!NextAccounts DEF SteadyAccounts
<1>3. Inv => AccountsFollowSales
    BY S!AccountsSettled DEF AccountsFollowSales
<1> QED
    BY <1>1, <1>2, <1>3, PTL DEF ShopSpec

\* Whatever documents are posted and reversed, every line has one side, on every
\* date the trial balance balances and assets equal liabilities and equity, and
\* the reports agree with the accounts.
THEOREM BooksOfTheShop == ShopSpec => []BooksBalance
<1> DEFINE Inv == focus = "books" => B!LedgerInv
<1>1. ShopInit => Inv
    BY ShopParameters, B!InitLedger DEF ShopInit
<1>2. Inv /\ [ShopNext]_shopVars => Inv'
    BY ShopParameters, BooksStep, B!NextLedger
<1>3. Inv => BooksBalance
    BY ShopParameters, B!BooksOf DEF BooksBalance
<1> QED
    BY <1>1, <1>2, <1>3, PTL DEF ShopSpec

\* However requests that post, edit, remove, reverse and reconcile overlap, a
\* reversal cancels its entry, statements chain, and the last one with the
\* lines still open gives the BANK account.
THEOREM BankBookOfTheShop == ShopSpec => []BankBookReconciles
<1> DEFINE Inv == focus = "bank" => K!LedgerInv
<1>1. ShopInit => Inv
    BY ShopParameters, K!InitLedger DEF ShopInit
<1>2. Inv /\ [ShopNext]_shopVars => Inv'
    BY ShopParameters, BankStep, K!NextLedger
<1>3. Inv => BankBookReconciles
    BY ShopParameters, K!BanksOf DEF BankBookReconciles
<1> QED
    BY <1>1, <1>2, <1>3, PTL DEF ShopSpec

\* Whatever links drop, writes fail and pages open meanwhile, of a job reported as
\* printed every chunk was sent, in order, and while the page stays open to one
\* printer and apart from others; on paper every line has its own style, the rows
\* add up, and the browser knows every label.
THEOREM ReceiptsOfTheShop == ShopSpec => []ReceiptsPrinted
<1> DEFINE Inv == (focus = "printer" => PrinterInv) /\ (focus = "receipt" => ReceiptInv)
<1>1. ShopInit => Inv
    BY ShopParameters, InitPrinter, InitReceipt DEF ShopInit
<1>2. Inv /\ [ShopNext]_shopVars => Inv'
    BY ShopParameters, PrinterStep, NextPrinter, ReceiptStep, NextReceipt
<1>3. Inv => ReceiptsPrinted
    BY ShopParameters, PrinterOf, ReceiptOf DEF ReceiptsPrinted
<1> QED
    BY <1>1, <1>2, <1>3, PTL DEF ShopSpec

\* However requests that create, rename, move, remove and file overlap, an item is
\* listed on the pages of its category and all above it.
THEOREM CatalogueOfTheShop == ShopSpec => []ListedWhereFiled
<1> DEFINE Inv == focus = "catalogue" => CatalogueInv
<1>1. ShopInit => Inv
    BY ShopParameters, InitCatalogue DEF ShopInit
<1>2. Inv /\ [ShopNext]_shopVars => Inv'
    BY ShopParameters, CatalogueStep, NextCatalogue
<1>3. Inv => ListedWhereFiled
    BY ShopParameters, CatalogueOf DEF ListedWhereFiled
<1> QED
    BY <1>1, <1>2, <1>3, PTL DEF ShopSpec

\* Whatever arrives late, no answer is refused for the role, nothing on screen is
\* from another session, and a settled page shows the user's own changes of which
\* no older answer was under way that the cache does not cancel.
THEOREM PagesOfTheShop == ShopSpec => []PagesOfTheUser
<1> DEFINE Inv == focus = "terminal" => TerminalInv
<1>1. ShopInit => Inv
    BY ShopParameters, InitTerminal DEF ShopInit
<1>2. Inv /\ [ShopNext]_shopVars => Inv'
    BY ShopParameters, TerminalStep, NextTerminal
<1>3. Inv => PagesOfTheUser
    BY ShopParameters, TerminalOf DEF PagesOfTheUser
<1> QED
    BY <1>1, <1>2, <1>3, PTL DEF ShopSpec

\* Wherever earlier starts were interrupted, only an initialization cut short fails
\* a start, no password is lost unread, and no child outlives the application.
THEOREM StartsOfTheShop == ShopSpec => []StartsUnlessCut
<1> DEFINE Inv == focus = "desktop" => DesktopInv
<1>1. ShopInit => Inv
    BY ShopParameters, InitDesktop DEF ShopInit
<1>2. Inv /\ [ShopNext]_shopVars => Inv'
    BY ShopParameters, DesktopStep, NextDesktop
<1>3. Inv => StartsUnlessCut
    BY ShopParameters, DesktopOf DEF StartsUnlessCut
<1> QED
    BY <1>1, <1>2, <1>3, PTL DEF ShopSpec
=============================================================================
