---------------------------- MODULE InvoiceFile ----------------------------
(***************************************************************************)
(* GET /v1/invoices/:id/:actions of inventory-service: preview, sendemail  *)
(* write the PDF of an order to a file that all requests for that order    *)
(* share, and then show or mail what the file holds.                       *)
(*                                                                         *)
(* os.Create truncates the file and every request writes from offset 0     *)
(* through its own descriptor, so a write covers what another one left and *)
(* keeps what lies behind it.  A PDF is one write(2), which the file       *)
(* system applies in one step, wholly or, when the disk is full, in part.  *)
(* Readers copy until the end of the file, or until the size that c.File   *)
(* has announced as Content-Length; a PDF fits in the buffer of one read.  *)
(* A preview with a Range header shows a part of what is shown here.       *)
(*                                                                         *)
(* A document is a sequence of blocks that name the request that made them *)
(* and their place: the layout of the PDF is left out, its length is not.  *)
(***************************************************************************)
EXTENDS Integers, Sequences, SequencesExt

CONSTANTS
  Requests,
  OrderIds,
  Actions,     \* values of the query parameter action that are enumerated
  Lengths,     \* the blocks of the PDF of an order, by version of its row
  MaxChanges,  \* bound: rows updated or deleted meanwhile
  NoRow, NoFile, NoReply

Replies == {"200", "304", "400", "404", "500", "501"}

ASSUME InvoiceFileAssumption ==
  /\ Lengths \in Seq(Nat \ {0}) /\ Lengths # << >>
  /\ MaxChanges \in Nat
  /\ NoRow \notin Nat
  /\ NoFile \notin Seq(Requests \X Nat)
  /\ NoReply \notin Replies

VARIABLES
  row,        \* table orders: the version of an order's row, or NoRow
  changes,    \* counts what MaxChanges bounds
  pc,         \* the statement a handler is at
  order,      \* its query: the id
  action,     \* and the action
  version,    \* the row it has loaded
  file,       \* the file system
  size,       \* Content-Length announced by c.File
  got,        \* what it has read from the file, or written to the response
  reply,
  mailed,     \* what the SMTP server has accepted of a request
  disturbed   \* history: requests whose file another one touched meanwhile

vars == <<row, changes, pc, order, action, version, file, size, got, reply, mailed, disturbed>>

Versions == DOMAIN Lengths
Blocks   == Requests \X Nat
Paths    == OrderIds
Pcs == {"idle", "asked", "loaded", "opened", "written", "serving", "mailing", "done"}

TypeOK ==
  /\ row \in [OrderIds -> Versions \cup {NoRow}]
  /\ changes \in 0..MaxChanges
  /\ pc \in [Requests -> Pcs]
  /\ order \in [Requests -> OrderIds \cup {NoReply}]
  /\ action \in [Requests -> Actions \cup {NoReply}]
  /\ version \in [Requests -> Versions \cup {NoRow}]
  /\ \A p \in Paths : file[p] = NoFile \/ file[p] \in Seq(Blocks)
  /\ size \in [Requests -> Nat]
  /\ \A r \in Requests : {got[r], mailed[r]} \subseteq Seq(Blocks)
  /\ reply \in [Requests -> Replies \cup {NoReply}]
  /\ disturbed \subseteq Requests

Init ==
  /\ row \in [OrderIds -> {1, NoRow}]
  /\ changes = 0
  /\ pc = [r \in Requests |-> "idle"]
  /\ order = [r \in Requests |-> NoReply]
  /\ action = [r \in Requests |-> NoReply]
  /\ version = [r \in Requests |-> NoRow]
  /\ file = [p \in Paths |-> NoFile]
  /\ size = [r \in Requests |-> 0]
  /\ got = [r \in Requests |-> << >>]
  /\ reply = [r \in Requests |-> NoReply]
  /\ mailed = [r \in Requests |-> << >>]
  /\ disturbed = {}

---------------------------------------------------------------------------
\* WriteInvoicePDF: the document a request makes of the row it has loaded.
Pdf(r) == [i \in 1..Lengths[version[r]] |-> <<r, i>>]

\* Bug: the literal of the download header.
FileOfFixed(r) == CHOOSE p \in Paths : TRUE

\* filename := fmt.Sprintf("inventory-%d.pdf", id)
FileOf(r) == order[r]

\* A write of doc at offset 0.
Overlay(doc, old) ==
  [i \in 1..(IF Len(doc) > Len(old) THEN Len(doc) ELSE Len(old)) |->
     IF i <= Len(doc) THEN doc[i] ELSE old[i]]

\* Requests between their os.Create and the end of their reading.
UsesFile(r) == pc[r] \in {"opened", "written", "serving", "mailing"}
Touch(r) == disturbed' =
  disturbed \cup {s \in Requests \ {r} : UsesFile(s) /\ FileOf(s) = FileOf(r)}

Goto(r, l) == pc' = [pc EXCEPT ![r] = l]
Answer(r, code) == Goto(r, "done") /\ reply' = [reply EXCEPT ![r] = code]

requestVars == <<order, action>>
tableVars == <<row, changes>>

\* A request arrives; an id that is no number is refused.
Arrive(r, id, a) ==
  /\ pc[r] = "idle"
  /\ \/ /\ Goto(r, "asked")
        /\ order' = [order EXCEPT ![r] = id]
        /\ action' = [action EXCEPT ![r] = a]
        /\ UNCHANGED reply
     \/ Answer(r, "400") /\ UNCHANGED requestVars
  /\ UNCHANGED <<tableVars, version, file, size, got, mailed, disturbed>>

\* What each action makes of the loaded row before any file is opened.
Dispatch(r) ==
  CASE action[r] \in {"preview", "sendemail"} -> Goto(r, "loaded") /\ UNCHANGED <<reply, got>>
    [] action[r] = "download" ->
         /\ Answer(r, "200")
         /\ got' = [got EXCEPT ![r] = [i \in 1..Lengths[row[order[r]]] |-> <<r, i>>]]
    [] action[r] = "generate" -> Answer(r, "200") /\ UNCHANGED got
    [] action[r] = "upload" -> Answer(r, "501") /\ UNCHANGED got
    [] OTHER -> Answer(r, "400") /\ UNCHANGED got

\* h.DB.First and the mapping of the row to PDF data.
Load(r) ==
  /\ pc[r] = "asked"
  /\ version' = [version EXCEPT ![r] = row[order[r]]]
  /\ \/ row[order[r]] # NoRow /\ Dispatch(r)
     \/ row[order[r]] = NoRow /\ Answer(r, "404") /\ UNCHANGED got
  /\ UNCHANGED <<tableVars, requestVars, file, size, mailed, disturbed>>

\* First, MkdirAll, os.Create, os.Stat, Dial or the open of c.File returns an
\* error.
Fail(r) ==
  /\ pc[r] \in {"asked", "loaded", "written"}
  /\ Answer(r, "500")
  /\ UNCHANGED <<tableVars, requestVars, version, file, size, got, mailed, disturbed>>

\* Bug: the file is opened for writing without being truncated.
CreateNoTruncate(r) ==
  /\ pc[r] = "loaded"
  /\ Goto(r, "opened")
  /\ file' = [file EXCEPT ![FileOf(r)] = IF @ = NoFile THEN << >> ELSE @]
  /\ Touch(r)
  /\ UNCHANGED <<tableVars, requestVars, version, size, got, reply, mailed>>

\* os.Create.
Create(r) ==
  /\ pc[r] = "loaded"
  /\ Goto(r, "opened")
  /\ file' = [file EXCEPT ![FileOf(r)] = << >>]
  /\ Touch(r)
  /\ UNCHANGED <<tableVars, requestVars, version, size, got, reply, mailed>>

\* Output writes the document and the handler closes the file; or the write
\* stops after n blocks, with an error.
Write(r) ==
  /\ pc[r] = "opened"
  /\ \/ /\ file' = [file EXCEPT ![FileOf(r)] = Overlay(Pdf(r), @)]
        /\ Goto(r, "written") /\ UNCHANGED reply
     \/ \E n \in 0..(Len(Pdf(r)) - 1) :
          /\ file' = [file EXCEPT ![FileOf(r)] = Overlay(SubSeq(Pdf(r), 1, n), @)]
          /\ Answer(r, "500")
  /\ Touch(r)
  /\ UNCHANGED <<tableVars, requestVars, version, size, got, mailed>>

\* c.File opens the file and sends status 200 with its present size, or no file
\* to a client that has a copy of this second (If-Modified-Since).
Serve(r) ==
  /\ pc[r] = "written" /\ action[r] = "preview"
  /\ \/ /\ Goto(r, "serving") /\ UNCHANGED reply
        /\ size' = [size EXCEPT ![r] = Len(file[FileOf(r)])]
     \/ Answer(r, "304") /\ UNCHANGED size
  /\ UNCHANGED <<tableVars, requestVars, version, file, got, mailed, disturbed>>

\* Dial has succeeded and Send opens the attachment.
Mail(r) ==
  /\ pc[r] = "written" /\ action[r] = "sendemail"
  /\ Goto(r, "mailing")
  /\ UNCHANGED <<tableVars, requestVars, version, file, size, got, reply, mailed, disturbed>>

\* What a read of r returns: all up to the end, and not beyond Content-Length.
Rest(r) ==
  LET now == file[FileOf(r)]
      end == IF pc[r] = "serving" /\ size[r] < Len(now) THEN size[r] ELSE Len(now)
  IN SubSeq(now, Len(got[r]) + 1, end)

\* One read of the copying loop that returns data.
Read(r) ==
  /\ pc[r] \in {"serving", "mailing"} /\ Rest(r) # << >>
  /\ got' = [got EXCEPT ![r] = @ \o Rest(r)]
  /\ UNCHANGED <<tableVars, requestVars, pc, version, file, size, reply, mailed, disturbed>>

\* The read that finds the end: the response is complete.
ServeEnd(r) ==
  /\ pc[r] = "serving" /\ Rest(r) = << >>
  /\ Answer(r, "200")
  /\ UNCHANGED <<tableVars, requestVars, version, file, size, got, mailed, disturbed>>

\* The same for a mail, which the server then accepts or not; its answer may
\* be lost.
MailEnd(r) ==
  /\ pc[r] = "mailing" /\ Rest(r) = << >>
  /\ \E accepted, answered \in BOOLEAN :
       /\ mailed' = [mailed EXCEPT ![r] = IF accepted THEN got[r] ELSE @]
       /\ Answer(r, IF accepted /\ answered THEN "200" ELSE "500")
  /\ UNCHANGED <<tableVars, requestVars, version, file, size, got, disturbed>>

\* Another handler updates or deletes the order.
Change(id) ==
  /\ row[id] # NoRow /\ changes < MaxChanges
  /\ changes' = changes + 1
  /\ \E v \in Versions \cup {NoRow} : v # row[id] /\ row' = [row EXCEPT ![id] = v]
  /\ UNCHANGED <<pc, requestVars, version, file, size, got, reply, mailed, disturbed>>

Handle(r) ==
  \/ \E id \in OrderIds, a \in Actions : Arrive(r, id, a)
  \/ Load(r) \/ Fail(r) \/ Create(r) \/ Write(r)
  \/ Serve(r) \/ Mail(r) \/ Read(r) \/ ServeEnd(r) \/ MailEnd(r)

Next == (\E r \in Requests : Handle(r)) \/ (\E id \in OrderIds : Change(id))

Spec == Init /\ [][Next]_vars

---------------------------------------------------------------------------
(* Properties.                                                             *)

Shown(r) == {got[r], mailed[r]} \ {<< >>}
UsedFile(r) == reply[r] = "200" /\ action[r] \in {"preview", "sendemail"}

\* A preview or mail that no other request for the file came between is the
\* document of its own request, whole, whatever earlier requests, failed
\* writes included, have left in the file (invoice_handler.go:381-401, :442-456).
UndisturbedIsWhole ==
  \A r \in Requests \ disturbed : UsedFile(r) => Shown(r) = {Pdf(r)}

\* However requests overlap, what is shown or mailed for an order is made of
\* documents of that order only: a customer never gets a part of another
\* customer's invoice.
NoForeignInvoice ==
  \A r \in Requests : \A doc \in Shown(r) : \A i \in DOMAIN doc :
    order[doc[i][1]] = order[r]

\* "Send email using generated file" (invoice_handler.go:455): what is mailed
\* is the file that this request has generated.
MailIsGeneratedFile ==
  \A r \in Requests : reply[r] = "200" /\ action[r] = "sendemail" => mailed[r] = Pdf(r)

=============================================================================
