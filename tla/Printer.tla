------------------------------ MODULE Printer -------------------------------
(* The receipt printer: one connection shared by every page that prints. A   *)
(* receipt goes out in chunks with a pause after each, and between two       *)
(* chunks the link may drop, another page may connect again, or print.       *)
(* Each connection finds a characteristic that answers every write, or one   *)
(* that does not, on which a chunk may be lost and count as written.         *)
EXTENDS Integers, Sequences

CONSTANTS
    Jobs,           \* receipts and payslips printed
    Devices,        \* printers within reach
    Chunks,         \* chunks of a document
    MaxFaults,      \* bound on dropped links, failed writes and lost chunks
    MaxVisits,      \* bound on the times another page is opened
    None

Parameters == Chunks \in Nat \ {0} /\ {MaxFaults, MaxVisits} \subseteq Nat

VARIABLES
    platform,       \* "bluetooth" or "browser": what createDefaultPrinter finds
    link,           \* of each device, whether its link is up
    printer,        \* what the shared printer holds: a device and whether it answers, or None
    page,           \* the page open: its name and the visit
    printing,       \* state of the page open: it is printing
    job,            \* each job: where it is, chunk reached, page that started it
    paper,          \* the chunks sent, in order: of what job, to what device, whether it came out
    faults          \* faults so far

vars == <<platform, link, printer, page, printing, job, paper, faults>>

-----------------------------------------------------------------------------
Ended == {"printed", "dialog", "dialogInstead", "failed"}
Set(j, at) == [job EXCEPT ![j].at = at]
\* The end of handlePrint reaches the page that started it, if it is still open.
PrintingAfter(j) == printing /\ ~(job'[j].at \in Ended /\ job[j].page = page)

\* The link of d goes down; the listener forgets a printer that is d.
Lose(d) ==
    /\ link' = [link EXCEPT ![d] = FALSE]
    /\ printer' = IF printer # None /\ printer.device = d THEN None ELSE printer

-----------------------------------------------------------------------------
(* Receipts are printed from the New Sale page and payslips from the page of *)
(* an employee; either waits with its buttons for the last one to end.       *)

ButtonEnabled == ~printing

\* Without a printer connected, print connects first.
StartPrint(j) ==
    /\ job[j].at = "new" /\ ButtonEnabled
    /\ job' = [job EXCEPT ![j] =
                [at |-> IF platform = "browser" THEN "browser"
                        ELSE IF printer = None THEN "choosing" ELSE "writing",
                 device |-> None, chunk |-> 1, page |-> page]]
    /\ printing' = TRUE
    /\ UNCHANGED <<platform, link, printer, page, paper, faults>>

\* Another page is opened; the page left is gone with its state.
Leave ==
    /\ page.visit < MaxVisits
    /\ page' = [name |-> IF page.name = "pos" THEN "staff" ELSE "pos", visit |-> page.visit + 1]
    /\ printing' = FALSE
    /\ UNCHANGED <<platform, link, printer, job, paper, faults>>

-----------------------------------------------------------------------------
(* connect()                                                                 *)

\* The user picks a device, which connects.
Choose(j, d) ==
    /\ job[j].at = "choosing"
    /\ job' = [job EXCEPT ![j].at = "discovering", ![j].device = d]
    /\ link' = [link EXCEPT ![d] = TRUE]
    /\ UNCHANGED <<platform, printer, page, printing, paper, faults>>

\* The user cancels, or the device does not answer.
NotChosen(j) ==
    /\ job[j].at = "choosing"
    /\ job' = Set(j, "error")
    /\ UNCHANGED <<platform, link, printer, page, printing, paper, faults>>

\* A device whose link dropped during the first discovery is connected again.
ConnectAgain(j) ==
    /\ job[j].at = "discovering" /\ ~link[job[j].device]
    /\ job' = Set(j, "rediscovering")
    /\ link' = [link EXCEPT ![job[j].device] = TRUE]
    /\ UNCHANGED <<platform, printer, page, printing, paper, faults>>

Discovered(j) == job[j].at \in {"discovering", "rediscovering"} /\ link[job[j].device]

\* The first characteristic found that can be written answers, or does not.
Connected(j) ==
    /\ job[j].at \in {"discovering", "rediscovering"} /\ Discovered(j)
    /\ \E answers \in BOOLEAN : printer' = [device |-> job[j].device, answers |-> answers]
    /\ job' = Set(j, "writing")
    /\ UNCHANGED <<platform, link, page, printing, paper, faults>>

\* The link is down, or no characteristic can be written.
NotConnected(j) ==
    /\ job[j].at \in {"discovering", "rediscovering"}
    /\ Lose(job[j].device)
    /\ job' = Set(j, "error")
    /\ UNCHANGED <<platform, page, printing, paper, faults>>

-----------------------------------------------------------------------------
(* print()                                                                   *)

\* The next chunk of a job, sent to the printer held now.
NextPiece(j, out) == [job |-> j, chunk |-> job[j].chunk, device |-> printer.device, out |-> out]
\* After a chunk: the next one, or the job is reported as printed.
Onward(j) ==
    /\ job' = [job EXCEPT ![j].at = IF job[j].chunk = Chunks THEN "printed" ELSE "writing",
                          ![j].chunk = IF job[j].chunk = Chunks THEN Chunks ELSE job[j].chunk + 1]
    /\ printing' = PrintingAfter(j)

\* A chunk is written; without an answer it counts as written even if it is lost.
Send(j) == \E out \in BOOLEAN :
    /\ out \/ (~printer.answers /\ faults < MaxFaults)
    /\ paper' = Append(paper, NextPiece(j, out))
    /\ faults' = IF out THEN faults ELSE faults + 1

\* Variant with a mistake: a chunk is written only if there still is a printer.
WriteIfConnected(j) ==
    /\ job[j].at = "writing"
    /\ IF printer = None THEN UNCHANGED <<paper, faults>> ELSE Send(j)
    /\ Onward(j)
    /\ UNCHANGED <<platform, link, printer, page>>
Write(j) ==
    /\ job[j].at = "writing" /\ printer # None
    /\ Send(j)
    /\ Onward(j)
    /\ UNCHANGED <<platform, link, printer, page>>

\* Without a printer the characteristic cannot be read.
NoPrinter(j) ==
    /\ job[j].at = "writing" /\ printer = None
    /\ job' = Set(j, "error")
    /\ UNCHANGED <<platform, link, printer, page, printing, paper, faults>>

\* A write that fails, with or without its chunk printed.
WriteFails(j) ==
    /\ faults < MaxFaults /\ job[j].at = "writing" /\ printer # None
    /\ job' = Set(j, "error")
    /\ paper' \in {paper, Append(paper, NextPiece(j, TRUE))}
    /\ faults' = faults + 1
    /\ UNCHANGED <<platform, link, printer, page, printing>>

\* A receipt that fails is offered in the browser's print dialog; a payslip
\* is not.
Fallback(j) ==
    /\ job[j].at = "error"
    /\ \/ job[j].page.name = "pos" /\ job' = Set(j, "dialogInstead")
       \/ job' = Set(j, "failed")
    /\ printing' = PrintingAfter(j)
    /\ UNCHANGED <<platform, link, printer, page, paper, faults>>

Dialog(j) ==
    /\ job[j].at = "browser"
    /\ \/ job' = Set(j, "dialog")
       \/ job' = Set(j, "failed")
    /\ printing' = PrintingAfter(j)
    /\ UNCHANGED <<platform, link, printer, page, paper, faults>>

Drop(d) ==
    /\ faults < MaxFaults /\ link[d]
    /\ Lose(d)
    /\ faults' = faults + 1
    /\ UNCHANGED <<platform, page, printing, job, paper>>

-----------------------------------------------------------------------------
Init ==
    /\ platform \in {"bluetooth", "browser"}
    /\ link = [d \in Devices |-> FALSE] /\ printer = None
    /\ page = [name |-> "pos", visit |-> 0] /\ printing = FALSE
    /\ job = [j \in Jobs |-> [at |-> "new", device |-> None, chunk |-> 1, page |-> None]]
    /\ paper = <<>> /\ faults = 0

Connecting(j) ==
    \/ \E d \in Devices : Choose(j, d)
    \/ NotChosen(j) \/ ConnectAgain(j) \/ Connected(j) \/ NotConnected(j)
Printing(j) == Write(j) \/ NoPrinter(j) \/ WriteFails(j) \/ Fallback(j) \/ Dialog(j)

Next ==
    \/ \E j \in Jobs : StartPrint(j) \/ Connecting(j) \/ Printing(j)
    \/ \E d \in Devices : Drop(d)
    \/ Leave

Spec == Init /\ [][Next]_vars

-----------------------------------------------------------------------------
\* The variables are of their types.
TypeOK ==
    /\ link \in [Devices -> BOOLEAN]
    /\ printer \in [device : Devices, answers : BOOLEAN] \cup {None}
    /\ page.visit \in 0 .. MaxVisits /\ printing \in BOOLEAN
    /\ \A j \in Jobs : job[j].chunk \in 1 .. Chunks
    /\ faults \in 0 .. MaxFaults

\* The printer held by the application is one whose link is up: every way a
\* link can go down, while connecting or later, forgets it
\* (web-bluetooth-printer.ts:133-156).
HeldIsConnected == printer # None => link[printer.device]

Pieces(j) == {i \in DOMAIN paper : paper[i].job = j}

\* Of a document reported as printed every chunk was sent, once and in order,
\* whoever else printed, connected or lost the link meanwhile; and to a single
\* printer, as long as the New Sale page stays open (web-bluetooth-printer.ts:183).
PrintedIsWhole ==
    \A j \in Jobs :
        job[j].at = "printed" =>
            /\ {paper[i].chunk : i \in Pieces(j)} = 1 .. Chunks
            /\ \A i, k \in Pieces(j) : i < k => paper[i].chunk < paper[k].chunk
            /\ page.visit = 0 => \A i, k \in Pieces(j) : paper[i].device = paper[k].device

\* As long as the New Sale page stays open its receipts come out one after
\* the other, also when one fails half way (NewSalePage.tsx:88,
\* SaleConfirmationModal.tsx:130).
ReceiptsApart ==
    page.visit = 0 =>
        \A i, k \in 1 .. Len(paper) :
            i < k /\ paper[i].job = paper[k].job => \A n \in i .. k : paper[n].job = paper[i].job
=============================================================================
