------------------------- MODULE InvoiceFileProofs -------------------------
(***************************************************************************)
(* Proofs about InvoiceFile, for any requests, orders, actions and lengths *)
(* of documents.                                                           *)
(*                                                                         *)
(* A file is named after its order, so whatever requests write over each   *)
(* other they write into documents of one order.  And a request that       *)
(* nobody came between finds its file empty when it writes, so the write   *)
(* leaves its own document there, and the copy of it is the document.      *)
(***************************************************************************)
EXTENDS InvoiceFile, TLAPS

Typed ==
  /\ row \in [OrderIds -> Versions \cup {NoRow}]
  /\ changes \in 0..MaxChanges
  /\ pc \in [Requests -> Pcs]
  /\ order \in [Requests -> OrderIds \cup {NoReply}]
  /\ action \in [Requests -> Actions \cup {NoReply}]
  /\ version \in [Requests -> Versions \cup {NoRow}]
  /\ file \in [Paths -> Seq(Blocks) \cup {NoFile}]
  /\ size \in [Requests -> Nat]
  /\ got \in [Requests -> Seq(Blocks)]
  /\ mailed \in [Requests -> Seq(Blocks)]
  /\ reply \in [Requests -> Replies \cup {NoReply}]
  /\ disturbed \subseteq Requests

\* doc is made of documents of requests for the order id.
Owned(doc, id) ==
  \A i \in 1..Len(doc) : pc[doc[i][1]] # "idle" /\ order[doc[i][1]] = id

\* What a handler has at each of its statements.
Stage(r) ==
  /\ pc[r] # "done" => mailed[r] = << >> /\ reply[r] = NoReply
  /\ pc[r] \notin {"serving", "mailing", "done"} => got[r] = << >>
  /\ pc[r] \notin {"idle", "done"} => order[r] \in OrderIds
  /\ pc[r] \in {"loaded", "opened", "written", "serving", "mailing"} \/ UsedFile(r) =>
       version[r] \in Versions
  /\ pc[r] = "serving" => action[r] = "preview"
  /\ UsesFile(r) => file[FileOf(r)] # NoFile

\* A request that nobody disturbed has its own document, or nothing yet.
Whole(r) ==
  r \notin disturbed =>
    /\ pc[r] = "opened" => file[FileOf(r)] = << >>
    /\ pc[r] \in {"written", "serving", "mailing"} => file[FileOf(r)] = Pdf(r)
    /\ pc[r] = "serving" => size[r] = Len(Pdf(r))
    /\ pc[r] \in {"serving", "mailing"} => got[r] \in {<< >>, Pdf(r)}
    /\ UsedFile(r) => Shown(r) = {Pdf(r)}

FileTrue(p) == file[p] # NoFile => Owned(file[p], p)

DocTrue(r) == Owned(got[r], order[r]) /\ Owned(mailed[r], order[r])

IInv ==
  /\ Typed
  /\ \A r \in Requests : Stage(r) /\ Whole(r) /\ DocTrue(r)
  /\ \A p \in Paths : FileTrue(p)

---------------------------------------------------------------------------
(* Documents.                                                              *)

LEMMA PdfTyped ==
  ASSUME NEW r \in Requests, version[r] \in Versions
  PROVE  /\ Pdf(r) \in Seq(Blocks) /\ Len(Pdf(r)) = Lengths[version[r]]
         /\ Len(Pdf(r)) \in Nat \ {0} /\ Pdf(r) # << >>
         /\ \A i \in 1..Len(Pdf(r)) : Pdf(r)[i][1] = r
<1>1. Lengths[version[r]] \in Nat \ {0}
  BY InvoiceFileAssumption DEF Versions
<1> QED
  BY <1>1 DEF Pdf, Blocks

\* A write covers the beginning of what was there.
LEMMA OverlayTyped ==
  ASSUME NEW doc \in Seq(Blocks), NEW old \in Seq(Blocks)
  PROVE  /\ Overlay(doc, old) \in Seq(Blocks)
         /\ \A i \in 1..Len(Overlay(doc, old)) :
              \/ i \in 1..Len(doc) /\ Overlay(doc, old)[i] = doc[i]
              \/ i \in 1..Len(old) /\ Overlay(doc, old)[i] = old[i]
         /\ old = << >> => Overlay(doc, old) = doc
<1> DEFINE n == IF Len(doc) > Len(old) THEN Len(doc) ELSE Len(old)
<1>1. n \in Nat /\ Len(doc) \in Nat /\ Len(old) \in Nat
  OBVIOUS
<1>2. \A i \in 1..n : i \in 1..Len(doc) \/ (i > Len(doc) /\ i \in 1..Len(old))
  BY <1>1
<1>3. \A i \in 1..Len(doc) : doc[i] \in Blocks
  OBVIOUS
<1>4. \A i \in 1..Len(old) : old[i] \in Blocks
  OBVIOUS
<1>5. Overlay(doc, old) = [i \in 1..n |-> IF i <= Len(doc) THEN doc[i] ELSE old[i]]
  BY DEF Overlay
<1>6. old = << >> => n = Len(doc)
  OBVIOUS
<1> HIDE DEF n
<1>7. \A i \in 1..n : (IF i <= Len(doc) THEN doc[i] ELSE old[i]) \in Blocks
  BY <1>1, <1>2, <1>3, <1>4
<1>8. Overlay(doc, old) \in Seq(Blocks) /\ Len(Overlay(doc, old)) = n
  BY <1>1, <1>5, <1>7
<1>9. \A i \in 1..n : \/ i \in 1..Len(doc) /\ Overlay(doc, old)[i] = doc[i]
                      \/ i \in 1..Len(old) /\ Overlay(doc, old)[i] = old[i]
  BY <1>1, <1>2, <1>5
<1>10. old = << >> => Overlay(doc, old) = doc
  <2> SUFFICES ASSUME old = << >> PROVE Overlay(doc, old) = doc
    OBVIOUS
  <2>1. \A i \in 1..Len(doc) : Overlay(doc, old)[i] = doc[i]
    BY <1>1, <1>5, <1>6
  <2> QED
    BY <1>1, <1>6, <1>8, <2>1
<1> QED
  BY <1>8, <1>9, <1>10

\* What a document is made of never changes once a request has arrived.
LEMMA DocsStay ==
  ASSUME IInv, \A s \in Requests : pc[s] # "idle" => pc'[s] # "idle" /\ order'[s] = order[s]
  PROVE  /\ \A s \in Requests :
              order'[s] = order[s] /\ got'[s] = got[s] /\ mailed'[s] = mailed[s] => DocTrue(s)'
         /\ \A p \in Paths : file'[p] = file[p] => FileTrue(p)'
<1>1. ASSUME NEW doc \in Seq(Blocks), NEW i \in 1..Len(doc) PROVE doc[i][1] \in Requests
  BY DEF Blocks
<1>2. ASSUME NEW s \in Requests, order'[s] = order[s], got'[s] = got[s], mailed'[s] = mailed[s]
      PROVE  DocTrue(s)'
  <2>1. /\ \A i \in 1..Len(got[s]) : got[s][i][1] \in Requests
        /\ \A i \in 1..Len(mailed[s]) : mailed[s][i][1] \in Requests
    BY <1>1 DEF IInv, Typed
  <2>2. Owned(got[s], order[s]) /\ Owned(mailed[s], order[s])
    BY DEF IInv, DocTrue
  <2> QED
    BY <1>2, <2>1, <2>2 DEF DocTrue, Owned
<1>3. ASSUME NEW p \in Paths, file'[p] = file[p] PROVE FileTrue(p)'
  <2>1. file[p] # NoFile =>
          Owned(file[p], p) /\ \A i \in 1..Len(file[p]) : file[p][i][1] \in Requests
    BY <1>1 DEF IInv, Typed, FileTrue
  <2> QED
    BY <1>3, <2>1 DEF FileTrue, Owned
<1> QED
  BY <1>2, <1>3

\* A step of r is no business of another request unless it writes its file.
LEMMA OthersKeep ==
  ASSUME IInv, NEW s \in Requests,
         pc'[s] = pc[s], order'[s] = order[s], action'[s] = action[s],
         version'[s] = version[s], size'[s] = size[s], got'[s] = got[s],
         reply'[s] = reply[s], mailed'[s] = mailed[s], disturbed \subseteq disturbed',
         UsesFile(s) => /\ file'[FileOf(s)] # NoFile
                        /\ s \notin disturbed' => file'[FileOf(s)] = file[FileOf(s)]
  PROVE  Stage(s)' /\ Whole(s)'
<1>1. Stage(s)'
  BY DEF IInv, Stage, UsesFile, UsedFile, FileOf
<1>2. Whole(s)'
  BY DEF IInv, Whole, UsesFile, UsedFile, FileOf, Pdf, Shown
<1> QED
  BY <1>1, <1>2

\* The steps of r that change no file.
LEMMA QuietStep ==
  ASSUME IInv, NEW r \in Requests, UNCHANGED <<file, disturbed>>, Typed',
         \A s \in Requests \ {r} :
           /\ pc'[s] = pc[s] /\ order'[s] = order[s] /\ action'[s] = action[s]
           /\ version'[s] = version[s] /\ size'[s] = size[s] /\ got'[s] = got[s]
           /\ reply'[s] = reply[s] /\ mailed'[s] = mailed[s],
         pc[r] # "idle" => order'[r] = order[r], pc'[r] # "idle",
         Stage(r)', Whole(r)', DocTrue(r)'
  PROVE  IInv'
<1>1. \A s \in Requests \ {r} : Stage(s)' /\ Whole(s)'
  BY OthersKeep DEF IInv, Stage
<1>2. \A s \in Requests : pc[s] # "idle" => pc'[s] # "idle" /\ order'[s] = order[s]
  OBVIOUS
<1>3. /\ \A s \in Requests \ {r} : DocTrue(s)'
      /\ \A p \in Paths : FileTrue(p)'
  BY <1>2, DocsStay
<1> QED
  BY <1>1, <1>3 DEF IInv

\* The steps of r that write doc into its file, and touch it.
LEMMA WriteStep ==
  ASSUME IInv, NEW r \in Requests, NEW doc \in Seq(Blocks), UsesFile(r) \/ pc[r] = "loaded",
         file' = [file EXCEPT ![FileOf(r)] = doc], \A i \in 1..Len(doc) : order[doc[i][1]] = FileOf(r),
         \A i \in 1..Len(doc) : doc[i][1] \in Requests /\ pc[doc[i][1]] # "idle",
         Touch(r), Typed', UNCHANGED <<order, action, version, size, got, mailed>>,
         pc'[r] # "idle",
         \A s \in Requests \ {r} : pc'[s] = pc[s] /\ reply'[s] = reply[s],
         Stage(r)', Whole(r)'
  PROVE  IInv'
<1>1. FileOf(r) \in Paths
  BY DEF IInv, Stage, UsesFile, FileOf, Paths
<1>2. file'[FileOf(r)] = doc /\ doc # NoFile /\ \A p \in Paths \ {FileOf(r)} : file'[p] = file[p]
  BY <1>1, InvoiceFileAssumption DEF IInv, Typed, Blocks
<1>3. ASSUME NEW s \in Requests \ {r} PROVE Stage(s)' /\ Whole(s)'
  <2>1. UsesFile(s) => FileOf(s) \in Paths /\ file[FileOf(s)] # NoFile
    BY DEF IInv, Stage, UsesFile, FileOf, Paths
  <2>2. UsesFile(s) => /\ file'[FileOf(s)] # NoFile
                       /\ s \notin disturbed' => file'[FileOf(s)] = file[FileOf(s)]
    BY <1>2, <2>1 DEF Touch
  <2>3. disturbed \subseteq disturbed'
    BY DEF Touch
  <2> QED
    BY <2>2, <2>3, OthersKeep
<1>4. \A s \in Requests : pc[s] # "idle" => pc'[s] # "idle" /\ order'[s] = order[s]
  OBVIOUS
<1>5. \A s \in Requests : DocTrue(s)'
  BY <1>4, DocsStay
<1>6. ASSUME NEW p \in Paths PROVE FileTrue(p)'
  <2>1. CASE p = FileOf(r)
    BY <1>2, <1>4, <2>1 DEF FileTrue, Owned
  <2>2. CASE p # FileOf(r)
    BY <1>2, <1>4, <2>2, DocsStay
  <2> QED
    BY <2>1, <2>2
<1> QED
  BY <1>3, <1>5, <1>6 DEF IInv

---------------------------------------------------------------------------
(* The steps of a handler.                                                 *)

LEMMA ArriveKeeps ==
  ASSUME IInv, NEW r \in Requests, NEW id \in OrderIds, NEW a \in Actions, Arrive(r, id, a)
  PROVE  IInv'
<1>1. Typed /\ Stage(r) /\ pc[r] = "idle"
  BY DEF IInv, Arrive
<1>2. got[r] = << >> /\ mailed[r] = << >>
  BY <1>1 DEF Stage
<1>3. /\ UNCHANGED <<file, disturbed, row, changes, version, size, got, mailed>>
      /\ \/ pc'[r] = "asked" /\ order'[r] = id /\ reply' = reply
         \/ pc'[r] = "done" /\ order' = order /\ reply'[r] = "400"
  BY <1>1 DEF Arrive, Goto, Answer, tableVars, requestVars, Typed
<1>4. Typed'
  <2>1. pc' \in [Requests -> Pcs] /\ reply' \in [Requests -> Replies \cup {NoReply}]
    BY <1>1 DEF Arrive, Goto, Answer, Typed, Pcs, Replies
  <2>2. /\ order' \in [Requests -> OrderIds \cup {NoReply}]
        /\ action' \in [Requests -> Actions \cup {NoReply}]
    BY <1>1 DEF Arrive, requestVars, Typed
  <2> QED
    BY <1>1, <1>3, <2>1, <2>2 DEF Typed
<1>5. \A s \in Requests \ {r} :
        pc'[s] = pc[s] /\ order'[s] = order[s] /\ action'[s] = action[s] /\ reply'[s] = reply[s]
  BY <1>1 DEF Arrive, Goto, Answer, requestVars, Typed
<1>6. Stage(r)'
  BY <1>1, <1>2, <1>3, InvoiceFileAssumption DEF Stage, UsedFile, UsesFile, Replies
<1>7. Whole(r)'
  BY <1>1, <1>3, InvoiceFileAssumption DEF Whole, UsedFile, Stage, Replies
<1>8. DocTrue(r)'
  BY <1>2, <1>3 DEF DocTrue, Owned
<1> QED
  BY <1>1, <1>3, <1>4, <1>5, <1>6, <1>7, <1>8, QuietStep

LEMMA LoadKeeps ==
  ASSUME IInv, NEW r \in Requests, Load(r)
  PROVE  IInv'
<1> DEFINE doc == [i \in 1..Lengths[row[order[r]]] |-> <<r, i>>]
<1>1. Typed /\ Stage(r) /\ pc[r] = "asked" /\ order[r] \in OrderIds
  BY DEF IInv, Load, Stage
<1>2. row[order[r]] \in Versions \cup {NoRow} /\ got[r] = << >> /\ mailed[r] = << >> /\ reply[r] = NoReply
  BY <1>1 DEF Typed, Stage
<1>3. /\ UNCHANGED <<file, disturbed, row, changes, size, mailed, order, action>>
      /\ version' = [version EXCEPT ![r] = row[order[r]]]
  BY DEF Load, tableVars, requestVars
<1>4. row[order[r]] # NoRow => doc \in Seq(Blocks) /\ Len(doc) = Lengths[row[order[r]]]
                               /\ \A i \in 1..Len(doc) : doc[i][1] = r
  <2>1. row[order[r]] # NoRow => Lengths[row[order[r]]] \in Nat
    BY <1>2, InvoiceFileAssumption DEF Versions
  <2> QED
    BY <2>1 DEF Blocks
<1> HIDE DEF doc
<1>5. \/ /\ pc' = [pc EXCEPT ![r] = "loaded"] /\ action[r] \in {"preview", "sendemail"}
         /\ row[order[r]] # NoRow /\ UNCHANGED <<reply, got>>
      \/ /\ pc' = [pc EXCEPT ![r] = "done"] /\ got' = got
         /\ \E code \in Replies : /\ reply' = [reply EXCEPT ![r] = code]
                                  /\ code = "200" => action[r] \notin {"preview", "sendemail"}
      \/ /\ pc' = [pc EXCEPT ![r] = "done"] /\ row[order[r]] # NoRow
         /\ reply' = [reply EXCEPT ![r] = "200"] /\ action[r] \notin {"preview", "sendemail"}
         /\ got' = [got EXCEPT ![r] = doc]
  <2>1. CASE row[order[r]] = NoRow /\ Answer(r, "404") /\ UNCHANGED got
    BY <2>1 DEF Answer, Goto, Replies
  <2>2. CASE row[order[r]] # NoRow /\ Dispatch(r)
    <3>1. CASE action[r] \in {"preview", "sendemail"}
      BY <2>2, <3>1 DEF Dispatch, Goto
    <3>2. CASE action[r] = "download"
      BY <2>2, <3>2 DEF Dispatch, Goto, Answer, doc
    <3>3. CASE action[r] \notin {"preview", "sendemail", "download"}
      BY <2>2, <3>3 DEF Dispatch, Goto, Answer, Replies
    <3> QED
      BY <3>1, <3>2, <3>3
  <2> QED
    BY <2>1, <2>2 DEF Load
<1>6. /\ \A s \in Requests \ {r} : /\ pc'[s] = pc[s] /\ reply'[s] = reply[s] /\ got'[s] = got[s]
                                   /\ version'[s] = version[s]
      /\ version'[r] = row[order[r]]
      /\ pc'[r] \in {"loaded", "done"} /\ (pc'[r] = "loaded" => UNCHANGED <<reply, got>>)
      /\ pc'[r] = "loaded" => row[order[r]] # NoRow
      /\ reply'[r] = "200" => action[r] \notin {"preview", "sendemail"}
      /\ got'[r] = got[r] \/ (got'[r] = doc /\ row[order[r]] # NoRow)
  BY <1>1, <1>2, <1>3, <1>5, InvoiceFileAssumption DEF Typed, Replies
<1>7. Typed'
  <2>1. pc' \in [Requests -> Pcs]
    BY <1>1, <1>5 DEF Typed, Pcs
  <2>2. reply' \in [Requests -> Replies \cup {NoReply}]
    BY <1>1, <1>5 DEF Typed, Replies
  <2>3. got' \in [Requests -> Seq(Blocks)]
    BY <1>1, <1>4, <1>5 DEF Typed
  <2>4. version' \in [Requests -> Versions \cup {NoRow}]
    BY <1>1, <1>2, <1>3 DEF Typed
  <2> QED
    BY <1>1, <1>3, <2>1, <2>2, <2>3, <2>4 DEF Typed
<1>8. Stage(r)'
  BY <1>1, <1>2, <1>3, <1>6 DEF Stage, UsedFile, UsesFile
<1>9. Whole(r)'
  BY <1>1, <1>3, <1>6 DEF Whole, UsedFile
<1>10. DocTrue(r)'
  <2>1. \A i \in 1..Len(got'[r]) : got'[r][i][1] = r
    BY <1>2, <1>4, <1>6
  <2> QED
    BY <1>2, <1>3, <1>6, <2>1 DEF DocTrue, Owned
<1> QED
  BY <1>1, <1>3, <1>6, <1>7, <1>8, <1>9, <1>10, QuietStep

\* An answer that shows nothing: an error, or 304 to a preview.
LEMMA EmptyAnswerKeeps ==
  ASSUME IInv, NEW r \in Requests, pc[r] \in {"asked", "loaded", "written"},
         NEW code \in {"304", "500"}, Answer(r, code),
         UNCHANGED <<tableVars, requestVars, version, file, size, got, mailed, disturbed>>
  PROVE  IInv'
<1>1. Typed /\ Stage(r) /\ DocTrue(r) /\ pc[r] \in {"asked", "loaded", "written"}
  BY DEF IInv
<1>2. /\ UNCHANGED <<file, disturbed, row, changes, order, action, version, size, got, mailed>>
      /\ pc' = [pc EXCEPT ![r] = "done"] /\ reply' = [reply EXCEPT ![r] = code]
  BY DEF Answer, Goto, tableVars, requestVars
<1>3. pc'[r] = "done" /\ reply'[r] = code
      /\ \A s \in Requests \ {r} : pc'[s] = pc[s] /\ reply'[s] = reply[s]
  BY <1>1, <1>2 DEF Typed
<1>4. Typed'
  BY <1>1, <1>2 DEF Typed, Pcs, Replies
<1>5. Stage(r)' /\ Whole(r)'
  BY <1>1, <1>2, <1>3 DEF Stage, Whole, UsedFile, UsesFile
<1>6. DocTrue(r)'
  BY <1>1, <1>2, <1>3 DEF DocTrue, Owned, Stage
<1> QED
  BY <1>1, <1>2, <1>3, <1>4, <1>5, <1>6, QuietStep

LEMMA FailKeeps ==
  ASSUME IInv, NEW r \in Requests, Fail(r)
  PROVE  IInv'
BY EmptyAnswerKeeps DEF Fail

LEMMA CreateKeeps ==
  ASSUME IInv, NEW r \in Requests, Create(r)
  PROVE  IInv'
<1>1. Typed /\ Stage(r) /\ Whole(r) /\ pc[r] = "loaded" /\ FileOf(r) \in Paths
  BY DEF IInv, Create, Stage, FileOf, Paths
<1>2. /\ UNCHANGED <<row, changes, order, action, version, size, got, reply, mailed>>
      /\ pc' = [pc EXCEPT ![r] = "opened"] /\ file' = [file EXCEPT ![FileOf(r)] = << >>]
      /\ disturbed' = disturbed \cup {s \in Requests \ {r} : UsesFile(s) /\ FileOf(s) = FileOf(r)}
  BY DEF Create, Goto, tableVars, requestVars, Touch
<1>3. /\ pc'[r] = "opened" /\ \A s \in Requests \ {r} : pc'[s] = pc[s]
      /\ file'[FileOf(r)] = << >> /\ << >> \in Seq(Blocks)
  BY <1>1, <1>2 DEF Typed
<1>4. Typed'
  BY <1>1, <1>2, <1>3 DEF Typed, Pcs
<1>5. << >> # NoFile
  <2>1. << >> \in Seq(Requests \X Nat)
    OBVIOUS
  <2> QED
    BY <2>1, InvoiceFileAssumption
<1>6. Stage(r)'
  BY <1>1, <1>2, <1>3, <1>5 DEF Stage, UsedFile, UsesFile, FileOf
<1>7. Whole(r)'
  BY <1>1, <1>2, <1>3, InvoiceFileAssumption DEF Whole, Stage, UsedFile, FileOf, Replies
<1> DEFINE doc == << >>
<1>8. doc \in Seq(Blocks) /\ Len(doc) = 0 /\ file' = [file EXCEPT ![FileOf(r)] = doc]
  BY <1>2, <1>3
<1> HIDE DEF doc
<1>9. /\ \A i \in 1..Len(doc) : order[doc[i][1]] = FileOf(r)
      /\ \A i \in 1..Len(doc) : doc[i][1] \in Requests /\ pc[doc[i][1]] # "idle"
  BY <1>8
<1>10. Touch(r)
  BY DEF Create
<1> QED
  BY <1>1, <1>2, <1>3, <1>4, <1>6, <1>7, <1>8, <1>9, <1>10, WriteStep

LEMMA WriteKeeps ==
  ASSUME IInv, NEW r \in Requests, Write(r)
  PROVE  IInv'
<1> DEFINE old == file[FileOf(r)]
<1>1. Typed /\ Stage(r) /\ Whole(r) /\ pc[r] = "opened" /\ UsesFile(r)
      /\ FileOf(r) \in Paths /\ version[r] \in Versions
  BY DEF IInv, Write, Stage, FileOf, Paths, UsesFile
<1>2. /\ old \in Seq(Blocks) /\ got[r] = << >> /\ mailed[r] = << >> /\ reply[r] = NoReply
      /\ \A i \in 1..Len(old) : old[i][1] \in Requests /\ pc[old[i][1]] # "idle"
                                /\ order[old[i][1]] = FileOf(r)
  <2>1. old \in Seq(Blocks) /\ Owned(old, FileOf(r))
    BY <1>1 DEF IInv, Typed, Stage, FileTrue
  <2>2. \A i \in 1..Len(old) : old[i] \in Blocks
    BY <2>1
  <2> QED
    BY <1>1, <2>1, <2>2 DEF Stage, Owned, Blocks
<1>3. /\ UNCHANGED <<row, changes, order, action, version, size, got, mailed>> /\ Touch(r)
      /\ disturbed' = disturbed \cup {s \in Requests \ {r} : UsesFile(s) /\ FileOf(s) = FileOf(r)}
  BY DEF Write, tableVars, requestVars, Touch
<1>4. PICK part \in Seq(Blocks) :
        /\ \A i \in 1..Len(part) : part[i][1] = r
        /\ file' = [file EXCEPT ![FileOf(r)] = Overlay(part, old)]
        /\ \/ part = Pdf(r) /\ pc' = [pc EXCEPT ![r] = "written"] /\ reply' = reply
           \/ pc' = [pc EXCEPT ![r] = "done"] /\ reply' = [reply EXCEPT ![r] = "500"]
  <2>1. Pdf(r) \in Seq(Blocks) /\ \A i \in 1..Len(Pdf(r)) : Pdf(r)[i][1] = r
    BY <1>1, PdfTyped
  <2>2. CASE file' = [file EXCEPT ![FileOf(r)] = Overlay(Pdf(r), @)]
             /\ Goto(r, "written") /\ UNCHANGED reply
    BY <2>1, <2>2 DEF Goto
  <2>3. ASSUME NEW n \in 0..(Len(Pdf(r)) - 1),
               file' = [file EXCEPT ![FileOf(r)] = Overlay(SubSeq(Pdf(r), 1, n), @)],
               Answer(r, "500")
        PROVE  \E part \in Seq(Blocks) :
                 /\ \A i \in 1..Len(part) : part[i][1] = r
                 /\ file' = [file EXCEPT ![FileOf(r)] = Overlay(part, old)]
                 /\ pc' = [pc EXCEPT ![r] = "done"] /\ reply' = [reply EXCEPT ![r] = "500"]
    <3> DEFINE pdf == Pdf(r)
               part == SubSeq(pdf, 1, n)
    <3>1. pdf \in Seq(Blocks) /\ n \in 0..Len(pdf) /\ \A i \in 1..Len(pdf) : pdf[i][1] = r
      BY <2>1
    <3> HIDE DEF pdf
    <3>2. part \in Seq(Blocks) /\ Len(part) = n /\ \A i \in 1..n : part[i] = pdf[i]
      BY <3>1
    <3>3. file' = [file EXCEPT ![FileOf(r)] = Overlay(part, old)]
      BY <2>3 DEF pdf
    <3> HIDE DEF part
    <3>4. \A i \in 1..Len(part) : part[i][1] = r
      BY <3>1, <3>2
    <3> QED
      BY <2>3, <3>2, <3>3, <3>4 DEF Answer, Goto
  <2> QED
    BY <2>2, <2>3 DEF Write
<1> DEFINE doc == Overlay(part, old)
<1>5. /\ doc \in Seq(Blocks)
      /\ \A i \in 1..Len(doc) : \/ i \in 1..Len(part) /\ doc[i] = part[i]
                                \/ i \in 1..Len(old) /\ doc[i] = old[i]
      /\ old = << >> => doc = part
  BY <1>2, <1>4, OverlayTyped
<1>6. file' = [file EXCEPT ![FileOf(r)] = doc]
  BY <1>4
<1> HIDE DEF doc, old
<1>7. \A i \in 1..Len(doc) : doc[i][1] \in Requests /\ pc[doc[i][1]] # "idle"
                             /\ order[doc[i][1]] = FileOf(r)
  BY <1>1, <1>2, <1>4, <1>5 DEF FileOf
<1>8. Typed'
  <2>1. file' \in [Paths -> Seq(Blocks) \cup {NoFile}]
    BY <1>1, <1>5, <1>6 DEF Typed
  <2>2. disturbed' \subseteq Requests
    BY <1>1, <1>3 DEF Typed
  <2>3. pc' \in [Requests -> Pcs] /\ reply' \in [Requests -> Replies \cup {NoReply}]
    BY <1>1, <1>4 DEF Typed, Pcs, Replies
  <2> QED
    BY <1>1, <1>3, <2>1, <2>2, <2>3 DEF Typed
<1>9. /\ \A s \in Requests \ {r} : pc'[s] = pc[s] /\ reply'[s] = reply[s]
      /\ \/ pc'[r] = "written" /\ part = Pdf(r) /\ reply'[r] = NoReply
         \/ pc'[r] = "done" /\ reply'[r] = "500"
      /\ file'[FileOf(r)] = doc /\ doc # NoFile
  BY <1>1, <1>2, <1>4, <1>5, <1>6, InvoiceFileAssumption DEF Typed, Blocks
<1>10. Stage(r)'
  BY <1>1, <1>2, <1>3, <1>9, InvoiceFileAssumption DEF Stage, UsedFile, UsesFile, FileOf, Replies
<1>11. Whole(r)'
  <2>1. r \notin disturbed' => old = << >>
    BY <1>1, <1>3 DEF Whole, old
  <2> QED
    BY <1>3, <1>5, <1>9, <2>1, InvoiceFileAssumption DEF Whole, UsedFile, FileOf, Pdf, Replies
<1> QED
  BY <1>1, <1>3, <1>5, <1>6, <1>7, <1>8, <1>9, <1>10, <1>11, WriteStep

\* Serve where it begins to send the file, and Mail.
Opens(r) ==
  /\ UNCHANGED <<row, changes, order, action, version, file, got, reply, mailed, disturbed>>
  /\ pc[r] = "written"
  /\ \/ /\ pc' = [pc EXCEPT ![r] = "serving"] /\ action[r] = "preview"
        /\ size' = [size EXCEPT ![r] = Len(file[FileOf(r)])]
     \/ pc' = [pc EXCEPT ![r] = "mailing"] /\ size' = size

LEMMA OpenKeeps ==
  ASSUME IInv, NEW r \in Requests, Opens(r)
  PROVE  IInv'
<1>1. Typed /\ Stage(r) /\ Whole(r) /\ DocTrue(r) /\ pc[r] = "written"
  BY DEF IInv, Opens
<1>2. /\ UNCHANGED <<row, changes, order, action, version, file, got, reply, mailed, disturbed>>
      /\ \/ /\ pc' = [pc EXCEPT ![r] = "serving"] /\ action[r] = "preview"
            /\ size' = [size EXCEPT ![r] = Len(file[FileOf(r)])]
         \/ pc' = [pc EXCEPT ![r] = "mailing"] /\ size' = size
  BY DEF Opens
<1>3. Len(file[FileOf(r)]) \in Nat
  <2>1. file[FileOf(r)] \in Seq(Blocks)
    BY <1>1 DEF Typed, Stage, UsesFile, FileOf, Paths
  <2> QED
    BY <2>1
<1>4. /\ \A s \in Requests \ {r} : pc'[s] = pc[s] /\ size'[s] = size[s]
      /\ \/ pc'[r] = "serving" /\ action[r] = "preview" /\ size'[r] = Len(file[FileOf(r)])
         \/ pc'[r] = "mailing"
  BY <1>1, <1>2 DEF Typed
<1>5. Typed'
  <2>1. pc' \in [Requests -> Pcs]
    BY <1>1, <1>2 DEF Typed, Pcs
  <2>2. size' \in [Requests -> Nat]
    BY <1>1, <1>2, <1>3 DEF Typed
  <2> QED
    BY <1>1, <1>2, <2>1, <2>2 DEF Typed
<1>6. Stage(r)'
  BY <1>1, <1>2, <1>4 DEF Stage, UsedFile, UsesFile, FileOf
<1>7. Whole(r)'
  BY <1>1, <1>2, <1>4, InvoiceFileAssumption DEF Whole, Stage, UsedFile, FileOf, Pdf, Replies
<1>8. DocTrue(r)'
  BY <1>1, <1>2, <1>4 DEF DocTrue, Owned, Stage
<1> QED
  BY <1>1, <1>2, <1>4, <1>5, <1>6, <1>7, <1>8, QuietStep

LEMMA ServeKeeps ==
  ASSUME IInv, NEW r \in Requests, Serve(r) \/ Mail(r)
  PROVE  IInv'
<1>1. CASE Opens(r)
  BY <1>1, OpenKeeps
<1>2. CASE Serve(r) /\ Answer(r, "304") /\ UNCHANGED size
  BY <1>2, EmptyAnswerKeeps DEF Serve
<1> QED
  BY <1>1, <1>2 DEF Serve, Mail, Opens, Goto, tableVars, requestVars

\* What is copied is a part of the file, and the rest of an undisturbed one.
LEMMA RestTrue ==
  ASSUME IInv, NEW r \in Requests, pc[r] \in {"serving", "mailing"}
  PROVE  /\ Rest(r) \in Seq(Blocks)
         /\ \A i \in 1..Len(Rest(r)) : \E j \in 1..Len(file[FileOf(r)]) : Rest(r)[i] = file[FileOf(r)][j]
         /\ r \notin disturbed => got[r] \in {<< >>, Pdf(r)} /\ got[r] \o Rest(r) = Pdf(r)
<1> DEFINE now == file[FileOf(r)]
           end == IF pc[r] = "serving" /\ size[r] < Len(now) THEN size[r] ELSE Len(now)
           k == Len(got[r])
<1>1. /\ now \in Seq(Blocks) /\ got[r] \in Seq(Blocks) /\ size[r] \in Nat /\ version[r] \in Versions
  BY DEF IInv, Typed, Stage, UsesFile, FileOf, Paths
<1>2. end \in Nat /\ end <= Len(now) /\ Len(now) \in Nat /\ k \in Nat
  BY <1>1
<1>3. r \notin disturbed => now = Pdf(r) /\ end = Len(now) /\ got[r] \in {<< >>, now}
  BY <1>1, <1>2 DEF IInv, Whole
<1>4. Rest(r) = SubSeq(now, k + 1, end)
  BY DEF Rest
<1> HIDE DEF now, end
<1>5. /\ SubSeq(now, k + 1, end) \in Seq(Blocks)
      /\ \A i \in 1..Len(SubSeq(now, k + 1, end)) :
           k + i \in 1..Len(now) /\ SubSeq(now, k + 1, end)[i] = now[k + i]
  BY <1>1, <1>2
<1>6. ASSUME r \notin disturbed PROVE got[r] \o SubSeq(now, k + 1, end) = now
  <2>1. CASE got[r] = << >>
    <3>1. k = 0 /\ SubSeq(now, 1, Len(now)) = now
      BY <1>1, <2>1
    <3>2. SubSeq(now, k + 1, end) = now
      BY <1>3, <1>6, <3>1
    <3> QED
      BY <1>1, <2>1, <3>2
  <2>2. CASE got[r] = now
    <3>1. SubSeq(now, k + 1, end) = << >>
      BY <1>1, <1>3, <1>6, <2>2
    <3>2. now \o << >> = now
      BY <1>1
    <3> QED
      BY <2>2, <3>1, <3>2
  <2> QED
    BY <1>3, <1>6, <2>1, <2>2
<1> QED
  BY <1>3, <1>4, <1>5, <1>6 DEF now

LEMMA ReadKeeps ==
  ASSUME IInv, NEW r \in Requests, Read(r)
  PROVE  IInv'
<1> DEFINE new == got[r] \o Rest(r)
<1>1. Typed /\ Stage(r) /\ Whole(r) /\ DocTrue(r) /\ pc[r] \in {"serving", "mailing"}
  BY DEF IInv, Read
<1>2. /\ UNCHANGED <<row, changes, pc, order, action, version, file, size, reply, mailed, disturbed>>
      /\ got' = [got EXCEPT ![r] = new]
  BY DEF Read, tableVars, requestVars
<1>3. /\ got[r] \in Seq(Blocks) /\ Rest(r) \in Seq(Blocks) /\ file[FileOf(r)] \in Seq(Blocks)
      /\ r \notin disturbed => new = Pdf(r)
      /\ FileTrue(order[r]) /\ file[order[r]] # NoFile
  BY <1>1, RestTrue DEF IInv, Typed, Stage, UsesFile, FileOf, Paths
<1>4. new \in Seq(Blocks)
      /\ \A i \in 1..Len(new) : \/ i \in 1..Len(got[r]) /\ new[i] = got[r][i]
                               \/ \E j \in 1..Len(Rest(r)) : new[i] = Rest(r)[j]
  <2> DEFINE rest == Rest(r)
             old == got[r]
  <2>1. rest \in Seq(Blocks) /\ old \in Seq(Blocks)
    BY <1>3
  <2> HIDE DEF rest, old
  <2>2. /\ old \o rest \in Seq(Blocks) /\ Len(old \o rest) = Len(old) + Len(rest)
        /\ \A i \in 1..(Len(old) + Len(rest)) :
             (old \o rest)[i] = IF i <= Len(old) THEN old[i] ELSE rest[i - Len(old)]
    BY <2>1
  <2>3. ASSUME NEW i \in 1..Len(old \o rest), i > Len(old)
        PROVE  i - Len(old) \in 1..Len(rest)
    BY <2>1, <2>2, <2>3
  <2>4. Len(old) \in Nat /\ Len(rest) \in Nat
    BY <2>1
  <2>5. \A i \in 1..Len(old \o rest) : \/ i \in 1..Len(old) /\ (old \o rest)[i] = old[i]
                                     \/ \E j \in 1..Len(rest) : (old \o rest)[i] = rest[j]
    BY <2>2, <2>3, <2>4
  <2> QED
    BY <2>2, <2>5 DEF rest, old
<1>5. \A i \in 1..Len(new) : pc[new[i][1]] # "idle" /\ order[new[i][1]] = order[r]
  <2>1. \A i \in 1..Len(got[r]) : pc[got[r][i][1]] # "idle" /\ order[got[r][i][1]] = order[r]
    BY <1>1 DEF DocTrue, Owned
  <2>2. \A j \in 1..Len(file[FileOf(r)]) : /\ pc[file[FileOf(r)][j][1]] # "idle"
                                         /\ order[file[FileOf(r)][j][1]] = order[r]
    BY <1>3 DEF FileTrue, Owned, FileOf
  <2>3. \A j \in 1..Len(Rest(r)) : pc[Rest(r)[j][1]] # "idle" /\ order[Rest(r)[j][1]] = order[r]
    BY <1>1, <2>2, RestTrue
  <2> QED
    BY <1>4, <2>1, <2>3
<1> HIDE DEF new
<1>6. got'[r] = new /\ \A s \in Requests \ {r} : got'[s] = got[s]
  BY <1>1, <1>2 DEF Typed
<1>7. Typed'
  BY <1>1, <1>2, <1>4 DEF Typed
<1>8. Stage(r)'
  BY <1>1, <1>2 DEF Stage, UsedFile, UsesFile, FileOf
<1>9. Whole(r)'
  BY <1>1, <1>2, <1>3, <1>6, InvoiceFileAssumption DEF Whole, Stage, UsedFile, FileOf, Pdf, Replies
<1>10. DocTrue(r)'
  BY <1>1, <1>2, <1>5, <1>6 DEF DocTrue, Owned
<1> QED
  BY <1>1, <1>2, <1>6, <1>7, <1>8, <1>9, <1>10, QuietStep

LEMMA EndKeeps ==
  ASSUME IInv, NEW r \in Requests, ServeEnd(r) \/ MailEnd(r)
  PROVE  IInv'
<1>1. /\ Typed /\ Stage(r) /\ Whole(r) /\ DocTrue(r)
      /\ pc[r] \in {"serving", "mailing"} /\ Rest(r) = << >>
      /\ mailed[r] = << >> /\ got[r] \in Seq(Blocks) /\ version[r] \in Versions
  BY DEF IInv, ServeEnd, MailEnd, Typed, Stage
<1>2. r \notin disturbed => got[r] = Pdf(r) /\ Pdf(r) # << >>
  BY <1>1, RestTrue, PdfTyped
<1>3. PICK doc \in {<< >>, got[r]}, code \in {"200", "500"} :
        /\ mailed' = [mailed EXCEPT ![r] = doc]
        /\ pc' = [pc EXCEPT ![r] = "done"] /\ reply' = [reply EXCEPT ![r] = code]
        /\ UNCHANGED <<row, changes, order, action, version, file, size, got, disturbed>>
  <2>1. mailed = [mailed EXCEPT ![r] = << >>]
    BY <1>1 DEF Typed
  <2>2. CASE ServeEnd(r)
    BY <2>1, <2>2 DEF ServeEnd, Answer, Goto, tableVars, requestVars
  <2>3. CASE MailEnd(r)
    <3>1. PICK accepted \in BOOLEAN, answered \in BOOLEAN :
            /\ mailed' = [mailed EXCEPT ![r] = IF accepted THEN got[r] ELSE @]
            /\ Answer(r, IF accepted /\ answered THEN "200" ELSE "500")
      BY <2>3 DEF MailEnd
    <3> QED
      BY <1>1, <2>3, <3>1 DEF MailEnd, Answer, Goto, tableVars, requestVars
  <2> QED
    BY <2>2, <2>3
<1>4. /\ pc'[r] = "done" /\ reply'[r] = code /\ mailed'[r] = doc
      /\ \A s \in Requests \ {r} : pc'[s] = pc[s] /\ reply'[s] = reply[s] /\ mailed'[s] = mailed[s]
  BY <1>1, <1>3 DEF Typed
<1>5. Typed'
  <2>1. pc' \in [Requests -> Pcs] /\ reply' \in [Requests -> Replies \cup {NoReply}]
    BY <1>1, <1>3 DEF Typed, Pcs, Replies
  <2>2. mailed' \in [Requests -> Seq(Blocks)]
    BY <1>1, <1>3 DEF Typed
  <2> QED
    BY <1>1, <1>3, <2>1, <2>2 DEF Typed
<1>6. Stage(r)'
  BY <1>1, <1>3, <1>4 DEF Stage, UsesFile
<1>7. Whole(r)'
  <2>1. r \notin disturbed => {got[r], doc} \ {<< >>} = {Pdf(r)}
    BY <1>2, <1>3
  <2> QED
    BY <1>3, <1>4, <2>1 DEF Whole, Shown, Pdf
<1>8. DocTrue(r)'
  <2>1. Owned(got[r], order[r]) /\ pc[r] # "idle"
    BY <1>1 DEF DocTrue
  <2>2. \A i \in 1..Len(got[r]) : got[r][i][1] \in Requests
    BY <1>1 DEF Blocks
  <2>3. \A i \in 1..Len(got[r]) : pc'[got[r][i][1]] # "idle" /\ order[got[r][i][1]] = order[r]
    BY <1>4, <2>1, <2>2 DEF Owned
  <2>4. \A i \in 1..Len(doc) : pc'[doc[i][1]] # "idle" /\ order[doc[i][1]] = order[r]
    BY <1>3, <2>3
  <2> QED
    BY <1>3, <1>4, <2>3, <2>4 DEF DocTrue, Owned
<1> QED
  BY <1>1, <1>3, <1>4, <1>5, <1>6, <1>7, <1>8, QuietStep

LEMMA SameKeeps ==
  ASSUME IInv, NEW r \in Requests,
         UNCHANGED <<pc, order, action, version, file, size, got, reply, mailed, disturbed>>
  PROVE  Stage(r)' /\ Whole(r)' /\ DocTrue(r)'
<1>1. Stage(r)'
  BY DEF IInv, Stage, UsedFile, UsesFile, FileOf
<1>2. Pdf(r)' = Pdf(r) /\ Shown(r)' = Shown(r) /\ UsedFile(r)' = UsedFile(r)
  BY DEF Pdf, Shown, UsedFile
<1>3. Whole(r)'
  BY <1>2 DEF IInv, Whole, FileOf
<1>4. DocTrue(r)'
  BY DEF IInv, DocTrue, Owned
<1> QED
  BY <1>1, <1>3, <1>4

LEMMA ChangeKeeps ==
  ASSUME IInv, NEW id \in OrderIds, Change(id)
  PROVE  IInv'
<1>1. UNCHANGED <<pc, order, action, version, file, size, got, reply, mailed, disturbed>>
  BY DEF Change, requestVars
<1>2. Typed'
  BY <1>1, InvoiceFileAssumption DEF Change, IInv, Typed
<1>3. \A r \in Requests : Stage(r)' /\ Whole(r)' /\ DocTrue(r)'
  BY <1>1, SameKeeps
<1>4. \A p \in Paths : FileTrue(p)'
  BY <1>1 DEF IInv, FileTrue, Owned
<1> QED
  BY <1>2, <1>3, <1>4 DEF IInv

LEMMA InitInv == Init => IInv
<1> SUFFICES ASSUME Init PROVE IInv
  OBVIOUS
<1>1. Typed
  BY InvoiceFileAssumption DEF Init, Typed, Versions, Pcs
<1>2. \A r \in Requests : Stage(r) /\ Whole(r)
  BY InvoiceFileAssumption DEF Init, Stage, Whole, UsedFile, UsesFile, Replies
<1>3. \A r \in Requests : DocTrue(r)
  BY DEF Init, DocTrue, Owned
<1>4. \A p \in Paths : FileTrue(p)
  BY DEF Init, FileTrue
<1> QED
  BY <1>1, <1>2, <1>3, <1>4 DEF IInv

LEMMA NextInv == IInv /\ [Next]_vars => IInv'
<1>1. ASSUME IInv, NEW r \in Requests, Handle(r) PROVE IInv'
  BY <1>1, ArriveKeeps, LoadKeeps, FailKeeps, CreateKeeps, WriteKeeps, ServeKeeps, ReadKeeps,
     EndKeeps DEF Handle
<1>2. ASSUME IInv, UNCHANGED vars PROVE IInv'
  <2>1. Typed'
    BY <1>2 DEF vars, IInv, Typed
  <2>2. \A r \in Requests : Stage(r)' /\ Whole(r)' /\ DocTrue(r)'
    BY <1>2, SameKeeps DEF vars
  <2>3. \A p \in Paths : FileTrue(p)'
    BY <1>2 DEF vars, IInv, FileTrue, Owned
  <2> QED
    BY <2>1, <2>2, <2>3 DEF IInv
<1> QED
  BY <1>1, <1>2, ChangeKeeps DEF Next

THEOREM Invariance == Spec => []IInv
BY InitInv, NextInv, PTL DEF Spec

---------------------------------------------------------------------------
(* Results.                                                                *)

\* Rows, files, responses and mails always have their types
\* (inventory-service, invoice_handler.go:291-527).
THEOREM TypeCorrect == Spec => []TypeOK
<1>1. IInv => TypeOK
  BY DEF IInv, Typed, TypeOK
<1> QED
  BY <1>1, Invariance, PTL

\* A preview or a mail that no other request for the order came between is
\* the whole document of its own request, whatever was in the file before
\* (invoice_handler.go:381-401, 442-456).
THEOREM UndisturbedFilesAreWhole == Spec => []UndisturbedIsWhole
<1>1. IInv => UndisturbedIsWhole
  BY DEF IInv, Whole, UndisturbedIsWhole
<1> QED
  BY <1>1, Invariance, PTL

\* However requests overlap, what is shown or mailed for an order comes from
\* documents of that order (invoice_handler.go:381-401, 442-456).
THEOREM FilesStayApart == Spec => []NoForeignInvoice
<1>1. ASSUME IInv PROVE NoForeignInvoice
  <2> SUFFICES ASSUME NEW r \in Requests, NEW doc \in Shown(r), NEW i \in DOMAIN doc
               PROVE  order[doc[i][1]] = order[r]
    BY DEF NoForeignInvoice
  <2>1. doc \in {got[r], mailed[r]} /\ doc \in Seq(Blocks)
    BY <1>1 DEF Shown, IInv, Typed
  <2>2. DocTrue(r) /\ i \in 1..Len(doc)
    BY <1>1, <2>1 DEF IInv
  <2> QED
    BY <2>1, <2>2 DEF DocTrue, Owned
<1> QED
  BY <1>1, Invariance, PTL

=============================================================================
