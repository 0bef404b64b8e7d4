--------------------------- MODULE WebServerProofs ---------------------------
(***************************************************************************)
(* Proofs about WebServer: the count of a served document and its memory,  *)
(* and a client that succeeds has what it asked for.                       *)
(***************************************************************************)
EXTENDS WebServer, FiniteSetTheorems, SequenceTheorems, TLAPS

Reading == {"resolve", "document"}
Holders(d) == {c \in Conns : job[c].pc \in Reading /\ job[c].alias.doc = d}

\* What is made, and that who has not grabbed a document has none.
WebTypes ==
  /\ owner.docs \in Nat /\ "docs" \in DOMAIN owner
  /\ ct \in [Docs -> Int] /\ given \in [Docs -> Nat]
  /\ gAliasDoc.doc = NULL \/ (gAliasDoc.doc \in Docs /\ gAliasDoc.doc <= owner.docs)
  /\ DOMAIN job = Conns
  /\ \A c \in Conns :
       /\ {"pc", "alias", "stale"} \subseteq DOMAIN job[c]
       /\ job[c].alias.doc = NULL \/ (job[c].alias.doc \in Docs /\ job[c].alias.doc <= owner.docs)
       /\ job[c].pc \in {"none", "grab"} => job[c].alias.doc = NULL

\* The owner counts once, until it gives the document up, and so does every reader; who
\* grabbed a document and did not use it stays counted.
CountsOK ==
  \A d \in Docs :
    /\ d <= owner.docs => ct[d] >= 1 - given[d] + Cardinality(Holders(d))
    /\ ~(d <= owner.docs) => d \notin freed /\ given[d] = 0

\* Nothing is freed before its owner has given it up.
FreedOK == \A d \in Docs : d \in freed => given[d] >= 1

\* The first part of CountedDocumentStays.
ReadersHave ==
  \A c \in Conns : LET d == job[c].alias.doc IN
    (job[c].pc \in Reading /\ d # NULL /\ ~job[c].stale /\ given[d] <= 1) => d \notin freed

WebInv == WebTypes /\ CountsOK /\ FreedOK /\ ReadersHave

LEMMA HoldersCounted ==
  ASSUME NEW d
  PROVE  /\ IsFiniteSet(Holders(d)) /\ Cardinality(Holders(d)) \in Nat
         /\ Holders(d)' \subseteq Holders(d) => Cardinality(Holders(d)') <= Cardinality(Holders(d))
         /\ \A c \in Holders(d) : Holders(d)' = Holders(d) \ {c} => Cardinality(Holders(d)') = Cardinality(Holders(d)) - 1
         /\ \A c : c \notin Holders(d) /\ Holders(d)' = Holders(d) \cup {c} =>
                     Cardinality(Holders(d)') = Cardinality(Holders(d)) + 1
<1>1. IsFiniteSet(Holders(d))
  <2>1. Holders(d) \subseteq Conns
    BY DEF Holders
  <2> QED BY <2>1, FS_Subset, WebServerAssumption
<1> DEFINE H == Holders(d)  Hn == Holders(d)'
<1>2. IsFiniteSet(H)
  BY <1>1
<1> HIDE DEF H, Hn
<1>3. Cardinality(H) \in Nat
  BY <1>2, FS_CardinalityType
<1>4. Hn \subseteq H => Cardinality(Hn) <= Cardinality(H)
  BY <1>2, FS_Subset
<1>5. \A c \in H : Hn = H \ {c} => Cardinality(Hn) = Cardinality(H) - 1
  BY <1>2, FS_RemoveElement
<1>6. \A c : c \notin H /\ Hn = H \cup {c} => Cardinality(Hn) = Cardinality(H) + 1
  BY <1>2, FS_AddElement
<1> QED BY <1>1, <1>3, <1>4, <1>5, <1>6 DEF H, Hn

LEMMA InitWeb == Init => WebInv
<1> SUFFICES ASSUME Init PROVE WebInv
  OBVIOUS
<1>1. \A c \in Conns : job[c].pc = "none" /\ job[c].alias.doc = NULL /\ {"pc", "alias", "stale"} \subseteq DOMAIN job[c]
  BY DEF Init, NoJob, NoAlias
<1>2. owner.docs = 0 /\ "docs" \in DOMAIN owner /\ DOMAIN job = Conns /\ gAliasDoc.doc = NULL
  BY DEF Init, NoAlias
<1>3. ct = [d \in Docs |-> 0] /\ given = [d \in Docs |-> 0] /\ freed = {}
  BY DEF Init
<1>4. WebTypes
  BY <1>1, <1>2, <1>3 DEF WebTypes
<1>5. CountsOK
  <2> SUFFICES ASSUME NEW d \in Docs
               PROVE  /\ d <= owner.docs => ct[d] >= 1 - given[d] + Cardinality(Holders(d))
                      /\ ~(d <= owner.docs) => d \notin freed /\ given[d] = 0
    BY DEF CountsOK
  <2> QED BY <1>2, <1>3, WebServerAssumption
<1>6. ReadersHave /\ FreedOK
  BY <1>1 DEF Init, Reading, ReadersHave, FreedOK
<1> QED BY <1>4, <1>5, <1>6 DEF WebInv

-----------------------------------------------------------------------------
(* Steps of a job. *)

\* A job goes on with what it has grabbed, and grabs and gives back nothing.
LEMMA JobGoesOn ==
  ASSUME WebInv, NEW c \in Conns, NEW j, Now(c, j), UNCHANGED <<aliasVars, owner>>,
         {"pc", "alias", "stale"} \subseteq DOMAIN j, j.alias = job[c].alias, j.stale = job[c].stale,
         j.pc \in Reading => job[c].pc \in Reading \/ job[c].alias.doc = NULL,
         j.pc \in {"none", "grab"} => job[c].alias.doc = NULL
  PROVE  WebInv'
<1>1. UNCHANGED <<gAliasDoc, ct, freed, given>> /\ WebTypes /\ NULL \notin Docs
  BY WebServerAssumption DEF aliasVars, WebInv
<1>2. DOMAIN job' = Conns /\ job'[c] = j /\ \A b \in Conns : b # c => job'[b] = job[b]
  BY <1>1 DEF Now, WebTypes
<1>3. WebTypes'
  BY <1>1, <1>2 DEF WebTypes
<1>4. \A d \in Docs : Holders(d)' \subseteq Holders(d)
  BY <1>1, <1>2 DEF Holders
<1>5. CountsOK'
  <2> SUFFICES ASSUME NEW d \in Docs
               PROVE  /\ d <= owner.docs => ct[d] >= 1 - given[d] + Cardinality(Holders(d)')
                      /\ ~(d <= owner.docs) => d \notin freed /\ given[d] = 0
    BY <1>1 DEF CountsOK
  <2>1. Cardinality(Holders(d)') <= Cardinality(Holders(d))
    BY <1>4, HoldersCounted
  <2>2. Cardinality(Holders(d)) \in Nat /\ ct[d] \in Int /\ given[d] \in Nat
    BY <1>1, HoldersCounted DEF WebTypes
  <2>3. Cardinality(Holders(d)') \in Nat
    <3>1. IsFiniteSet(Holders(d)')
      BY <1>4, HoldersCounted, FS_Subset
    <3> QED BY <3>1, FS_CardinalityType
  <2> QED BY <2>1, <2>2, <2>3 DEF WebInv, CountsOK
<1>6. ReadersHave' /\ FreedOK'
  BY <1>1, <1>2 DEF WebInv, ReadersHave, FreedOK, Reading
<1> QED BY <1>3, <1>5, <1>6 DEF WebInv

\* A reader more is counted before it has the document.
LEMMA Grabs == ASSUME WebInv, NEW c \in Conns, alias_grab(c) PROVE WebInv'
<1>1. UNCHANGED <<gAliasDoc, freed, given, owner>> /\ WebTypes /\ NULL \notin Docs /\ job[c].pc = "grab"
  BY WebServerAssumption DEF WebInv, alias_grab
<1>2. CASE gAliasDoc.doc = NULL
  <2>1. UNCHANGED <<job, ct, gAliasDoc, freed, given, owner>>
    BY <1>1, <1>2 DEF alias_grab
  <2> QED BY <2>1 DEF WebInv, WebTypes, CountsOK, ReadersHave, FreedOK, Holders
<1>3. CASE gAliasDoc.doc # NULL
  <2> DEFINE e == gAliasDoc.doc
             j == [job[c] EXCEPT !.alias = gAliasDoc, !.stale = gAliasDoc.doc \in freed, !.pc = "resolve"]
  <2>1. ct' = [ct EXCEPT ![e] = @ + 1] /\ job' = [job EXCEPT ![c] = j] /\ e \in Docs /\ e <= owner.docs
    BY <1>1, <1>3 DEF alias_grab, Now, WebTypes
  <2>2. j.alias = gAliasDoc /\ j.stale = (e \in freed) /\ j.pc = "resolve" /\ {"pc", "alias", "stale"} \subseteq DOMAIN j
    BY <1>1 DEF WebTypes
  <2>3. DOMAIN job' = Conns /\ job'[c] = j /\ \A b \in Conns : b # c => job'[b] = job[b]
    BY <1>1, <2>1 DEF WebTypes
  <2> HIDE DEF j
  <2>4. WebTypes'
    BY <1>1, <2>1, <2>2, <2>3 DEF WebTypes
  <2>5. /\ c \notin Holders(e) /\ Holders(e)' = Holders(e) \cup {c}
        /\ \A d \in Docs : d # e => Holders(d)' = Holders(d)
    BY <1>1, <2>2, <2>3 DEF Holders, Reading
  <2>6. CountsOK'
    <3> SUFFICES ASSUME NEW d \in Docs
                 PROVE  /\ d <= owner.docs => ct'[d] >= 1 - given[d] + Cardinality(Holders(d)')
                        /\ ~(d <= owner.docs) => d \notin freed /\ given[d] = 0
      BY <1>1 DEF CountsOK
    <3>1. Cardinality(Holders(d)) \in Nat /\ ct[d] \in Int /\ given[d] \in Nat
      BY <1>1, HoldersCounted DEF WebTypes
    <3>2. CASE d = e
      <4>1. Cardinality(Holders(d)') = Cardinality(Holders(d)) + 1 /\ ct'[d] = ct[d] + 1
        BY <1>1, <2>1, <2>5, <3>2, HoldersCounted DEF WebTypes
      <4> QED BY <3>1, <4>1 DEF WebInv, CountsOK
    <3>3. CASE d # e
      <4>1. Holders(d)' = Holders(d) /\ ct'[d] = ct[d]
        BY <1>1, <2>1, <2>5, <3>3 DEF WebTypes
      <4> QED BY <4>1 DEF WebInv, CountsOK
    <3> QED BY <3>2, <3>3
  <2>7. ReadersHave' /\ FreedOK'
    BY <1>1, <2>2, <2>3 DEF WebInv, ReadersHave, FreedOK
  <2> QED BY <2>4, <2>6, <2>7 DEF WebInv
<1> QED BY <1>2, <1>3

\* The count of a document falls with a reader that ends, or with the owner that gives it up:
\* when it is none, who reads the document has grabbed freed memory, or it was given up twice.
LEMMA CountFalls ==
  ASSUME WebInv, NEW e \in Docs, e <= owner.docs, NEW goesOn \in BOOLEAN, Released(e, ct', freed', goesOn),
         owner'.docs = owner.docs, "docs" \in DOMAIN owner',
         gAliasDoc' = gAliasDoc \/ gAliasDoc'.doc = NULL,
         DOMAIN job' = Conns,
         \A c \in Conns : job'[c] = job[c] \/ (job'[c].pc = "done" /\ job'[c].alias = job[c].alias
                                              /\ {"pc", "alias", "stale"} \subseteq DOMAIN job'[c]),
         \/ given' = [given EXCEPT ![e] = @ + 1] /\ UNCHANGED job
         \/ /\ UNCHANGED given
            /\ \E c \in Holders(e) : job'[c].pc = "done" /\ \A b \in Conns : b # c => job'[b] = job[b]
  PROVE  WebInv'
<1>1. WebTypes /\ NULL \notin Docs /\ ct' = [ct EXCEPT ![e] = @ - 1] /\ ct'[e] = ct[e] - 1
      /\ \A d \in Docs : d # e => ct'[d] = ct[d]
  BY WebServerAssumption DEF WebInv, Released, WebTypes
<1>2. freed' = IF ct'[e] <= 0 THEN freed \cup {e} ELSE freed
  BY DEF Released
<1>3. \A d \in Docs : given[d] \in Nat /\ ct[d] \in Int /\ given'[d] \in Nat /\ given'[d] >= given[d] /\ (d # e => given'[d] = given[d])
  BY <1>1 DEF WebTypes
<1>4. WebTypes'
  <2>1. ct' \in [Docs -> Int] /\ given' \in [Docs -> Nat]
    BY <1>1 DEF WebTypes
  <2> QED BY <1>1, <2>1 DEF WebTypes
<1>5. \A d \in Docs : Holders(d)' \subseteq Holders(d)
  BY DEF Holders, Reading
<1>6. \A d \in Docs : Cardinality(Holders(d)) \in Nat /\ Cardinality(Holders(d)') \in Nat /\ Cardinality(Holders(d)') <= Cardinality(Holders(d))
  BY <1>5, HoldersCounted, FS_Subset, FS_CardinalityType
<1>7. ct'[e] >= 1 - given'[e] + Cardinality(Holders(e)')
  <2>1. ct[e] >= 1 - given[e] + Cardinality(Holders(e))
    BY DEF WebInv, CountsOK
  <2>2. CASE given' = [given EXCEPT ![e] = @ + 1]
    <3>1. given'[e] = given[e] + 1
      BY <1>1, <2>2 DEF WebTypes
    <3> QED BY <1>1, <1>3, <1>6, <2>1, <3>1
  <2>3. CASE /\ UNCHANGED given
             /\ \E c \in Holders(e) : job'[c].pc = "done" /\ \A b \in Conns : b # c => job'[b] = job[b]
    <3>1. PICK c \in Holders(e) : job'[c].pc = "done" /\ \A b \in Conns : b # c => job'[b] = job[b]
      BY <2>3
    <3>2. Holders(e)' = Holders(e) \ {c}
      BY <3>1 DEF Holders, Reading
    <3>3. Cardinality(Holders(e)') = Cardinality(Holders(e)) - 1
      BY <3>2, HoldersCounted
    <3> QED BY <1>1, <1>3, <1>6, <2>1, <2>3, <3>3
  <2> QED BY <2>2, <2>3
<1>8. CountsOK'
  <2> SUFFICES ASSUME NEW d \in Docs
               PROVE  /\ d <= owner.docs => ct'[d] >= 1 - given'[d] + Cardinality(Holders(d)')
                      /\ ~(d <= owner.docs) => d \notin freed' /\ given'[d] = 0
    BY DEF CountsOK
  <2>1. CASE d = e
    BY <1>7, <2>1
  <2>2. CASE d # e
    <3>1. /\ d <= owner.docs => ct[d] >= 1 - given[d] + Cardinality(Holders(d))
          /\ ~(d <= owner.docs) => d \notin freed /\ given[d] = 0
      BY DEF WebInv, CountsOK
    <3>2. ct'[d] = ct[d] /\ given'[d] = given[d] /\ (d \in freed' <=> d \in freed)
      BY <1>1, <1>2, <1>3, <2>2
    <3> QED BY <1>3, <1>6, <3>1, <3>2
  <2> QED BY <2>1, <2>2
<1>9. ReadersHave'
  <2> SUFFICES ASSUME NEW c \in Conns, NEW d, d = job'[c].alias.doc, job'[c].pc \in Reading, d # NULL,
                      ~job'[c].stale, given'[d] <= 1
               PROVE  d \notin freed'
    BY DEF ReadersHave, Reading
  <2>1. job'[c] = job[c] /\ d \in Docs /\ given[d] <= 1
    <3>1. job'[c] = job[c]
      BY DEF Reading
    <3>2. d \in Docs
      BY <1>1, <3>1 DEF WebTypes
    <3> QED BY <1>3, <3>1, <3>2
  <2>2. d \notin freed
    BY <2>1 DEF WebInv, ReadersHave, FreedOK, Reading
  <2>3. CASE d # e
    BY <1>2, <2>2, <2>3
  <2>4. CASE d = e
    <3>1. c \in Holders(e)'
      BY <2>4 DEF Holders
    <3>2. Cardinality(Holders(e)') # 0
      BY <1>5, <3>1, HoldersCounted, FS_Subset, FS_EmptySet
    <3>3. ct'[e] >= 1
      BY <1>1, <1>3, <1>6, <1>7, <2>4, <3>2
    <3> QED BY <1>1, <1>2, <1>3, <2>2, <2>4, <3>3
  <2> QED BY <2>3, <2>4
<1>10. FreedOK'
  <2> SUFFICES ASSUME NEW d \in Docs, d \in freed' PROVE given'[d] >= 1
    BY DEF FreedOK
  <2>1. CASE d \in freed
    BY <1>3, <2>1 DEF WebInv, FreedOK
  <2>2. CASE d \notin freed
    BY <1>1, <1>2, <1>3, <1>6, <1>7, <2>2
  <2> QED BY <2>1, <2>2
<1> QED BY <1>4, <1>8, <1>9, <1>10 DEF WebInv

\* A job ends and gives its copy back.
LEMMA ReaderEnds ==
  ASSUME WebInv, NEW c \in Conns, job[c].pc \in Reading, Closes(c, job[c]), ReleaseCopy(job[c].alias), UNCHANGED owner
  PROVE  WebInv'
<1> DEFINE j == [job[c] EXCEPT !.pc = "done"]
           e == job[c].alias.doc
<1>1. WebTypes /\ Now(c, j) /\ j.pc = "done" /\ j.alias = job[c].alias /\ j.stale = job[c].stale
      /\ {"pc", "alias", "stale"} \subseteq DOMAIN j
  BY DEF WebInv, WebTypes, Closes
<1> HIDE DEF j
<1>2. DOMAIN job' = Conns /\ job'[c] = j /\ \A b \in Conns : b # c => job'[b] = job[b]
  BY <1>1 DEF WebTypes, Now
<1>3. CASE e = NULL
  <2>1. UNCHANGED aliasVars
    BY <1>3 DEF ReleaseCopy
  <2> QED BY <1>1, <2>1, JobGoesOn DEF Reading
<1>4. CASE e # NULL
  <2>1. PICK goesOn \in BOOLEAN : Released(e, ct', freed', goesOn) /\ UNCHANGED <<gAliasDoc, given>>
    BY <1>4 DEF ReleaseCopy
  <2>2. e \in Docs /\ e <= owner.docs
    BY <1>1, <1>4 DEF WebTypes
  <2>3. c \in Holders(e) /\ owner'.docs = owner.docs /\ "docs" \in DOMAIN owner'
    BY <1>1 DEF Holders, WebTypes
  <2> HIDE DEF e
  <2> QED BY <1>1, <1>2, <2>1, <2>2, <2>3, CountFalls
<1> QED BY <1>3, <1>4

LEMMA RequestBegins == ASSUME WebInv, NEW c \in Conns, handle_request(c) PROVE WebInv'
<1>1. /\ job[c].pc = "none" /\ dispatch_request(c) /\ UNCHANGED <<aliasVars, owner>> /\ WebTypes /\ job[c].alias.doc = NULL
      /\ {"pc", "alias", "stale"} \subseteq DOMAIN job[c]
  BY DEF handle_request, WebInv, WebTypes
<1>2. ASSUME NEW code, http_SendStatusResponse(c, code) PROVE WebInv'
  <2> DEFINE j == [job[c] EXCEPT !.pc = "done"]
  <2>1. Now(c, j) /\ j.pc = "done" /\ j.alias = job[c].alias /\ j.stale = job[c].stale
        /\ {"pc", "alias", "stale"} \subseteq DOMAIN j
    BY <1>1, <1>2 DEF http_SendStatusResponse, Closes
  <2> HIDE DEF j
  <2> QED BY <1>1, <2>1, JobGoesOn DEF Reading
<1>3. ASSUME NEW virtual, NEW path, NEW pc \in {"grab", "resolve"},
             Now(c, [job[c] EXCEPT !.virtual = virtual, !.file = path, !.pc = pc])
      PROVE  WebInv'
  <2> DEFINE j == [job[c] EXCEPT !.virtual = virtual, !.file = path, !.pc = pc]
  <2>1. Now(c, j) /\ j.pc = pc /\ j.alias = job[c].alias /\ j.stale = job[c].stale
        /\ {"pc", "alias", "stale"} \subseteq DOMAIN j
    BY <1>1, <1>3
  <2> HIDE DEF j
  <2> QED BY <1>1, <2>1, JobGoesOn
<1>4. CASE ~enabled
  BY <1>1, <1>2, <1>4 DEF dispatch_request
<1>5. CASE enabled
  <2>1. StartRequest(c)
    BY <1>1, <1>5 DEF dispatch_request
  <2> DEFINE path == remove_dots(req(c).path)
             virtual == isFileInVirtualDir(pVirtualDirList, path)
             pc == IF ~virtual /\ gAliasDoc.doc # NULL THEN "grab" ELSE "resolve"
  <2>2. \/ http_SendStatusResponse(c, HTTP_FORBIDDEN)
        \/ http_SendStatusResponse(c, HTTP_BAD_REQUEST)
        \/ Now(c, [job[c] EXCEPT !.virtual = virtual, !.file = path, !.pc = pc])
    BY <2>1 DEF StartRequest
  <2>3. pc \in {"grab", "resolve"}
    OBVIOUS
  <2> HIDE DEF path, virtual, pc
  <2> QED BY <1>2, <1>3, <2>2, <2>3
<1> QED BY <1>4, <1>5

LEMMA RequestResolved == ASSUME WebInv, NEW c \in Conns, process_request(c) PROVE WebInv'
<1>1. job[c].pc = "resolve" /\ UNCHANGED owner /\ {"pc", "alias", "stale"} \subseteq DOMAIN job[c]
  BY DEF process_request, WebInv, WebTypes
<1> DEFINE J(file, instr) == [job[c] EXCEPT !.file = file, !.instr = instr, !.left = instr.size]
<1>2. ASSUME NEW file, NEW instr, NEW pc, pc \in {"post", "done", "document", "open"}, UNCHANGED aliasVars,
             Now(c, [J(file, instr) EXCEPT !.pc = pc])
      PROVE  WebInv'
  <2> DEFINE j == [J(file, instr) EXCEPT !.pc = pc]
  <2>1. Now(c, j) /\ j.pc = pc /\ j.alias = job[c].alias /\ j.stale = job[c].stale
        /\ {"pc", "alias", "stale"} \subseteq DOMAIN j
    BY <1>1, <1>2
  <2> HIDE DEF j
  <2> QED BY <1>1, <1>2, <2>1, JobGoesOn DEF Reading
<1>3. PICK found, instr :
        IF instr.code # OK
          THEN http_SendStatusResponse(c, instr.code) /\ ReleaseCopy(job[c].alias)
        ELSE /\ UNCHANGED aliasVars
             /\ \/ Now(c, [J(found.file, instr) EXCEPT !.pc = "post"])
                \/ Closes(c, J(found.file, instr))
                \/ Now(c, [J(found.file, instr) EXCEPT !.pc = IF UsingAlias(c) THEN "document" ELSE "open"])
  BY DEF process_request
<1>4. CASE instr.code # OK
  <2>1. Closes(c, job[c]) /\ ReleaseCopy(job[c].alias)
    BY <1>3, <1>4 DEF http_SendStatusResponse
  <2> QED BY <1>1, <2>1, ReaderEnds DEF Reading
<1>5. CASE ~(instr.code # OK)
  <2>1. CASE Now(c, [J(found.file, instr) EXCEPT !.pc = "post"])
    BY <1>2, <1>3, <1>5, <2>1
  <2>2. CASE Closes(c, J(found.file, instr))
    BY <1>2, <1>3, <1>5, <2>2 DEF Closes
  <2>3. CASE Now(c, [J(found.file, instr) EXCEPT !.pc = IF UsingAlias(c) THEN "document" ELSE "open"])
    BY <1>2, <1>3, <1>5, <2>3
  <2> QED BY <1>3, <1>5, <2>1, <2>2, <2>3
<1> QED BY <1>4, <1>5

LEMMA DocumentSent == ASSUME WebInv, NEW c \in Conns, SendDocument(c) PROVE WebInv'
<1> QED BY ReaderEnds DEF SendDocument, Reading

\* Files that are read and written: the job has no part in the count any more.
LEMMA FilesServed ==
  ASSUME WebInv, NEW c \in Conns, OpenFile(c) \/ SendPiece(c) \/ OpenPost(c) \/ RecvPost(c) \/ WritePost(c)
  PROVE  WebInv'
<1>1. /\ UNCHANGED <<aliasVars, owner>> /\ {"pc", "alias", "stale"} \subseteq DOMAIN job[c]
      /\ job[c].pc \in {"open", "send", "post", "recv"}
  BY DEF OpenFile, SendPiece, OpenPost, RecvPost, WritePost, WebInv, WebTypes
<1>2. ASSUME NEW j, Now(c, j), j.pc \in {"open", "send", "post", "recv", "done"}, j.alias = job[c].alias,
             j.stale = job[c].stale, {"pc", "alias", "stale"} \subseteq DOMAIN j
      PROVE  WebInv'
  BY <1>1, <1>2, JobGoesOn DEF Reading
<1>3. CASE OpenFile(c)
  <2>1. PICK fp : \/ Now(c, [job[c] EXCEPT !.pc = "done"])
                  \/ Now(c, [job[c] EXCEPT !.fp = fp, !.pc = "send"])
    BY <1>3 DEF OpenFile, Closes
  <2> QED BY <1>1, <1>2, <2>1
<1>4. CASE SendPiece(c)
  <2>1. PICK fp, left : \/ Now(c, [[job[c] EXCEPT !.fp = fp] EXCEPT !.pc = "done"])
                        \/ Now(c, [job[c] EXCEPT !.fp = fp, !.left = left])
    BY <1>4 DEF SendPiece, Closes
  <2> QED BY <1>1, <1>2, <2>1
<1>5. CASE OpenPost(c)
  <2>1. \/ Now(c, [job[c] EXCEPT !.pc = "done"])
        \/ Now(c, [job[c] EXCEPT !.pc = "recv", !.left = 0])
    BY <1>5 DEF OpenPost, Closes
  <2> QED BY <1>1, <1>2, <2>1
<1>6. CASE RecvPost(c)
  <2>1. PICK have, whole : \/ Now(c, [job[c] EXCEPT !.pc = "done"])
                           \/ Now(c, [job[c] EXCEPT !.have = have, !.whole = whole])
    BY <1>6 DEF RecvPost, Closes
  <2> QED BY <1>1, <1>2, <2>1
<1>7. CASE WritePost(c)
  <2>1. PICK left : \/ Now(c, [[job[c] EXCEPT !.left = left] EXCEPT !.pc = "done"])
                    \/ Now(c, [job[c] EXCEPT !.left = left])
    BY <1>7 DEF WritePost, Closes
  <2> QED BY <1>1, <1>2, <2>1
<1> QED BY <1>3, <1>4, <1>5, <1>6, <1>7

-----------------------------------------------------------------------------
(* Steps of the application and of the clients. *)

LEMMA CallReturned ==
  ASSUME NEW o, "docs" \in DOMAIN o, Returns(o)
  PROVE  owner'.docs = o.docs /\ "docs" \in DOMAIN owner'
<1> QED BY DEF Returns

\* The document is what it was, or no longer served; only the application has gone on.
LEMMA DocumentStays ==
  ASSUME WebInv, UNCHANGED <<ct, freed, given, job>>, owner'.docs = owner.docs, "docs" \in DOMAIN owner',
         gAliasDoc' = gAliasDoc \/ gAliasDoc'.doc = NULL
  PROVE  WebInv'
<1>1. WebTypes'
  BY DEF WebInv, WebTypes
<1>2. \A d : Holders(d)' = Holders(d)
  BY DEF Holders
<1> QED BY <1>1, <1>2 DEF WebInv, CountsOK, ReadersHave, FreedOK

\* The owner gives the document up, if there is one.
LEMMA GivenUp ==
  ASSUME WebInv, UNCHANGED job, owner'.docs = owner.docs, "docs" \in DOMAIN owner',
         gAliasDoc.doc # NULL, NEW goesOn \in BOOLEAN, Released(gAliasDoc.doc, ct', freed', goesOn),
         given' = [given EXCEPT ![gAliasDoc.doc] = @ + 1], gAliasDoc' = gAliasDoc \/ gAliasDoc'.doc = NULL
  PROVE  WebInv'
<1>1. WebTypes
  BY DEF WebInv
<1>2. gAliasDoc.doc \in Docs /\ gAliasDoc.doc <= owner.docs
  BY <1>1 DEF WebTypes
<1> QED BY <1>1, <1>2, CountFalls DEF WebTypes

LEMMA AliasChanges == ASSUME WebInv, web_server_set_alias PROVE WebInv'
<1>1. UNCHANGED job /\ "docs" \in DOMAIN owner
  BY DEF web_server_set_alias, setupVars, WebInv, WebTypes
<1>2. owner'.docs = owner.docs /\ "docs" \in DOMAIN owner'
  <2> DEFINE url == GetDescDocumentAndURL(Call.desc, Call.config_baseURL)
  <2>1. \/ Returns([owner EXCEPT !.url = url])
        \/ Returns([owner EXCEPT !.url = NULL])
        \/ owner' = [owner EXCEPT !.releasing = TRUE, !.url = url]
    BY DEF web_server_set_alias
  <2> HIDE DEF url
  <2>2. \A x : "docs" \in DOMAIN [owner EXCEPT !.url = x] /\ [owner EXCEPT !.url = x].docs = owner.docs
    BY <1>1
  <2>3. CASE Returns([owner EXCEPT !.url = url])
    BY <2>2, <2>3, CallReturned
  <2>4. CASE Returns([owner EXCEPT !.url = NULL])
    BY <2>2, <2>4, CallReturned
  <2>5. CASE owner' = [owner EXCEPT !.releasing = TRUE, !.url = url]
    BY <1>1, <2>5
  <2> QED BY <2>1, <2>3, <2>4, <2>5
<1>3. CASE UNCHANGED aliasVars
  BY <1>1, <1>2, <1>3, DocumentStays DEF aliasVars
<1>4. CASE ReleaseGlobal
  <2>1. CASE gAliasDoc.doc = NULL
    BY <1>1, <1>2, <1>4, <2>1, DocumentStays DEF ReleaseGlobal, aliasVars
  <2>2. CASE gAliasDoc.doc # NULL
    <3>1. PICK goesOn \in BOOLEAN :
            /\ Released(gAliasDoc.doc, ct', freed', goesOn)
            /\ gAliasDoc' = IF ct'[gAliasDoc.doc] <= 0 THEN NoAlias ELSE gAliasDoc
            /\ given' = [given EXCEPT ![gAliasDoc.doc] = @ + 1]
      BY <1>4, <2>2 DEF ReleaseGlobal
    <3>2. gAliasDoc' = gAliasDoc \/ gAliasDoc'.doc = NULL
      BY <3>1 DEF NoAlias
    <3> QED BY <1>1, <1>2, <2>2, <3>1, <3>2, GivenUp
  <2> QED BY <2>1, <2>2
<1> QED BY <1>3, <1>4 DEF web_server_set_alias

LEMMA DocumentMade == ASSUME WebInv, AssignAlias PROVE WebInv'
<1> DEFINE e == owner.docs + 1
<1>1. /\ e \in Docs /\ ct' = [ct EXCEPT ![e] = 1] /\ UNCHANGED <<freed, given, job>> /\ WebTypes
      /\ gAliasDoc' = [name |-> owner.url, doc |-> e] /\ Returns([owner EXCEPT !.docs = e]) /\ NULL \notin Docs
      /\ owner.docs \in Nat /\ "docs" \in DOMAIN owner /\ Docs \subseteq Nat
  BY WebServerAssumption DEF AssignAlias, WebInv, WebTypes
<1>2. owner'.docs = e /\ "docs" \in DOMAIN owner'
  <2>1. "docs" \in DOMAIN [owner EXCEPT !.docs = e] /\ [owner EXCEPT !.docs = e].docs = e
    BY <1>1
  <2> QED BY <1>1, <2>1, CallReturned
<1>3. WebTypes'
  <2>1. ct' \in [Docs -> Int]
    BY <1>1 DEF WebTypes
  <2>2. gAliasDoc'.doc = e
    BY <1>1
  <2> HIDE DEF e
  <2>3. \A d \in Docs : d <= owner.docs => d <= owner'.docs
    BY <1>1, <1>2 DEF e
  <2> QED BY <1>1, <1>2, <2>1, <2>2, <2>3 DEF WebTypes
<1>4. \A d \in Docs : Holders(d)' = Holders(d) /\ (~(d <= owner.docs) => Holders(d) = {})
  BY <1>1 DEF Holders, WebTypes
<1>5. CountsOK'
  <2> SUFFICES ASSUME NEW d \in Docs
               PROVE  /\ d <= owner'.docs => ct'[d] >= 1 - given[d] + Cardinality(Holders(d)')
                      /\ ~(d <= owner'.docs) => d \notin freed /\ given[d] = 0
    BY <1>1 DEF CountsOK
  <2>1. /\ d <= owner.docs => ct[d] >= 1 - given[d] + Cardinality(Holders(d))
        /\ ~(d <= owner.docs) => d \notin freed /\ given[d] = 0
    BY DEF WebInv, CountsOK
  <2>2. d \in Nat /\ (d # e => ct'[d] = ct[d]) /\ (d = e => ct'[d] = 1)
    BY <1>1 DEF WebTypes
  <2>3. CASE d = e
    <3>1. ~(d <= owner.docs)
      BY <1>1, <2>3
    <3>2. Cardinality(Holders(d)') = 0
      BY <1>4, <3>1, FS_EmptySet
    <3> QED BY <1>2, <2>1, <2>2, <2>3, <3>1, <3>2
  <2>4. CASE d # e
    BY <1>1, <1>2, <1>4, <2>1, <2>2, <2>4
  <2> QED BY <2>3, <2>4
<1>6. ReadersHave' /\ FreedOK'
  BY <1>1 DEF WebInv, ReadersHave, FreedOK
<1> QED BY <1>3, <1>5, <1>6 DEF WebInv

LEMMA SetUp == ASSUME WebInv, Setup PROVE WebInv'
<1>1. UNCHANGED job /\ owner'.docs = owner.docs /\ "docs" \in DOMAIN owner'
  <2>1. "docs" \in DOMAIN owner
    BY DEF WebInv, WebTypes
  <2> QED BY <2>1, CallReturned DEF Setup
<1>2. CASE UNCHANGED aliasVars
  BY <1>1, <1>2, DocumentStays DEF aliasVars
<1>3. CASE dlnaEnableWebserver(Call.enable)
  <2>1. CASE Call.enable
    <3>1. UNCHANGED <<ct, freed, given>> /\ gAliasDoc' \in {gAliasDoc, NoAlias}
      BY <1>3, <2>1 DEF dlnaEnableWebserver, web_server_init
    <3> QED BY <1>1, <3>1, DocumentStays DEF NoAlias
  <2>2. CASE ~Call.enable
    <3>1. web_server_destroy
      BY <1>3, <2>2 DEF dlnaEnableWebserver
    <3>2. CASE UNCHANGED aliasVars
      BY <1>1, <3>2, DocumentStays DEF aliasVars
    <3>3. CASE gAliasDoc' = NoAlias /\ UNCHANGED <<ct, freed, given>>
      BY <1>1, <3>3, DocumentStays DEF NoAlias
    <3>4. CASE gAliasDoc.doc # NULL /\ ~UNCHANGED aliasVars
      <4>1. PICK goesOn \in BOOLEAN :
              /\ gAliasDoc' = NoAlias /\ Released(gAliasDoc.doc, ct', freed', goesOn)
              /\ given' = [given EXCEPT ![gAliasDoc.doc] = @ + 1]
        BY <3>1, <3>4 DEF web_server_destroy
      <4>2. gAliasDoc'.doc = NULL
        BY <4>1 DEF NoAlias
      <4> QED BY <1>1, <3>4, <4>1, <4>2, GivenUp
    <3> QED BY <3>1, <3>2, <3>3, <3>4 DEF web_server_destroy
  <2> QED BY <2>1, <2>2
<1> QED BY <1>2, <1>3 DEF Setup

LEMMA ClientsStep == ASSUME WebInv, NEW c \in Conns, Ask(c) \/ Abort(c) \/ http_CancelHttpGet(c) PROVE WebInv'
<1>1. UNCHANGED <<aliasVars, owner, job>>
  BY DEF Ask, Abort, http_CancelHttpGet, Opens, http_WriteHttpPost, http_CloseHttpPost, ReadResponseLineAndHeaders,
         ReadMore, http_ReadHttpGet, http_RecvMessage
<1>2. "docs" \in DOMAIN owner
  BY DEF WebInv, WebTypes
<1> QED BY <1>1, <1>2, DocumentStays DEF aliasVars

LEMMA StepWeb == ASSUME WebInv, [Next]_vars PROVE WebInv'
<1>1. CASE UNCHANGED vars
  <2>1. "docs" \in DOMAIN owner
    BY DEF WebInv, WebTypes
  <2> QED BY <1>1, <2>1, DocumentStays DEF vars
<1>2. CASE Owner
  BY <1>2, AliasChanges, DocumentMade, SetUp DEF Owner
<1>3. ASSUME NEW c \in Conns, Serve(c) PROVE WebInv'
  BY <1>3, RequestBegins, Grabs, RequestResolved, DocumentSent, FilesServed DEF Serve
<1> QED BY <1>1, <1>2, <1>3, ClientsStep DEF Next

(***************************************************************************)
(* A job that counts itself among the readers of a document in memory has  *)
(* it until it gives it back, with any number of connections, documents    *)
(* and changes of the setup, as long as the owner gave the document up     *)
(* once at most (webserver.c:417, 467): the count is at least the number   *)
(* of those that hold the document, and one more until the owner gave it   *)
(* up.  For the same reason nothing is freed that has not been given up,   *)
(* so that only a job that counts itself after that can come too late.     *)
(* That one reads freed memory, and the theorem does not speak of it.      *)
(***************************************************************************)
THEOREM CountedReadersKeepTheirDocument == Spec => []CountedDocumentStays
<1>1. Init => WebInv
  BY InitWeb
<1>2. WebInv /\ [Next]_vars => WebInv'
  BY StepWeb
<1>3. WebInv => CountedDocumentStays
  <2> SUFFICES ASSUME WebInv PROVE CountedDocumentStays
    OBVIOUS
  <2>1. ReadersHave
    BY DEF WebInv
  <2>2. gAliasDoc.doc # NULL /\ given[gAliasDoc.doc] = 0 => gAliasDoc.doc \notin freed
    BY DEF WebInv, WebTypes, FreedOK
  <2> QED BY <2>1, <2>2 DEF ReadersHave, Reading, CountedDocumentStays
<1> QED BY <1>1, <1>2, <1>3, PTL DEF Spec

-----------------------------------------------------------------------------
(* What a client gets. *)

Run(from, n) == [i \in 1..n |-> from + i - 1]

\* An instruction is to send what was asked for of a resource of that length.
Grants(i, range, length) ==
  /\ i.offset \in Nat /\ i.size \in Nat /\ i.offset + i.size <= length /\ length \in Nat
  /\ Wanted(range, length) = Run(i.offset, i.size)
  /\ i.active \in BOOLEAN /\ i.chunked \in BOOLEAN /\ (i.active \/ i.offset = 0)
  /\ range = NULL => i.offset = 0 /\ i.size = length

-----------------------------------------------------------------------------
(* Numbers and ranges. *)

LEMMA MinMax ==
  ASSUME NEW a \in Int, NEW b \in Int
  PROVE  /\ Min({a, b}) = IF a <= b THEN a ELSE b
         /\ Max({a, b}) = IF a <= b THEN b ELSE a
<1> DEFINE m == IF a <= b THEN a ELSE b
           n == IF a <= b THEN b ELSE a
<1>1. m \in {a, b} /\ (\A y \in {a, b} : m <= y) /\ \A x \in {a, b} : (\A y \in {a, b} : x <= y) => x = m
  OBVIOUS
<1>2. n \in {a, b} /\ (\A y \in {a, b} : n >= y) /\ \A x \in {a, b} : (\A y \in {a, b} : x >= y) => x = n
  OBVIOUS
<1> HIDE DEF m, n
<1>3. Min({a, b}) = m
  BY <1>1 DEF Min
<1>4. Max({a, b}) = n
  BY <1>2 DEF Max
<1> QED BY <1>3, <1>4 DEF m, n

LEMMA MinOfThree ==
  ASSUME NEW a \in Int, NEW b \in Int, NEW d \in Int
  PROVE  /\ Min({a, b, d}) \in {a, b, d}
         /\ Min({a, b, d}) <= a /\ Min({a, b, d}) <= b /\ Min({a, b, d}) <= d
<1>1. \E x \in {a, b, d} : \A y \in {a, b, d} : x <= y
  OBVIOUS
<1>2. Min({a, b, d}) \in {a, b, d} /\ \A y \in {a, b, d} : Min({a, b, d}) <= y
  BY <1>1 DEF Min
<1> QED BY <1>2

\* The first range of a request, as the server reads it.
LEMMA NextRange ==
  ASSUME NEW x \in [first : Nat \cup {-1}, last : Nat \cup {-1}]
  PROVE  GetNextRange(x).first = x.first /\ GetNextRange(x).last = x.last
<1> QED BY DEF GetNextRange, Scanned

LEMMA RangeGranted ==
  ASSUME NEW x \in [first : Nat \cup {-1}, last : Nat \cup {-1}], NEW spec, spec.unit = "bytes", spec # NULL,
         Head(spec.ranges) = x, spec.ranges[1] = x, NEW n \in Nat, NEW i,
         i = CreateHTTPRangeResponseHeader(spec, n), i.code = OK
  PROVE  /\ i.offset \in Nat /\ i.size \in Nat /\ i.offset + i.size <= n
         /\ Wanted(spec, n) = Run(i.offset, i.size) /\ i.active = TRUE
<1> DEFINE f == x.first  l == x.last
<1>1. f \in Nat \cup {-1} /\ l \in Nat \cup {-1}
  OBVIOUS
<1>2. GetNextRange(x).first = f /\ GetNextRange(x).last = l
  BY NextRange
<1>3. OK # HTTP_BAD_REQUEST /\ OK # HTTP_REQUEST_RANGE_NOT_SATISFIABLE
  BY DEF OK, HTTP_BAD_REQUEST, HTTP_REQUEST_RANGE_NOT_SATISFIABLE
<1> DEFINE first == IF f = -1 THEN Max({0, n - l}) ELSE f
           last == IF f = -1 \/ l = -1 THEN n - 1 ELSE Min({l, n - 1})
<1>4. Wanted(spec, n) = [j \in 1..(last - first + 1) |-> first + j - 1]
  BY DEF Wanted
<1> HIDE DEF f, l, first, last
<1>5. /\ Min({l, n - 1}) = (IF l <= n - 1 THEN l ELSE n - 1) /\ Min({l, n}) = (IF l <= n THEN l ELSE n)
      /\ Max({0, n - l}) = IF 0 <= n - l THEN n - l ELSE 0
  <2>1. l \in Int /\ n \in Int /\ n - 1 \in Int /\ n - l \in Int /\ 0 \in Int
    BY <1>1
  <2>2. Min({l, n - 1}) = (IF l <= n - 1 THEN l ELSE n - 1)
    BY <2>1, MinMax, Zenon
  <2>3. Min({l, n}) = (IF l <= n THEN l ELSE n)
    BY <2>1, MinMax, Zenon
  <2>4. Max({0, n - l}) = IF 0 <= n - l THEN n - l ELSE 0
    BY <2>1, MinMax, Zenon
  <2> QED BY <2>2, <2>3, <2>4
<1>6. /\ f <= n
      /\ \/ f >= 0 /\ l >= f /\ i = Instruction(f, Min({l, n - 1}) - f + 1)
         \/ f >= 0 /\ l = -1 /\ f < n /\ i = Instruction(f, n - f)
         \/ f = -1 /\ l > 0 /\ i = Instruction(n - Min({l, n}), Min({l, n}))
  <2> DEFINE r == GetNextRange(Head(spec.ranges))
             none(code) == [code |-> code, active |-> code # HTTP_BAD_REQUEST, offset |-> 0, size |-> n]
  <2>1. r.first = f /\ r.last = l
    BY <1>2
  <2>2. i = IF n < r.first THEN none(HTTP_REQUEST_RANGE_NOT_SATISFIABLE)
            ELSE IF r.first >= 0 /\ r.last >= r.first
              THEN Instruction(r.first, Min({r.last, n - 1}) - r.first + 1)
            ELSE IF r.first >= 0 /\ r.last = -1 /\ r.first < n THEN Instruction(r.first, n - r.first)
            ELSE IF r.first = -1 /\ r.last > 0
              THEN Instruction(n - Min({r.last, n}), Min({r.last, n}))
            ELSE none(HTTP_REQUEST_RANGE_NOT_SATISFIABLE)
    BY DEF CreateHTTPRangeResponseHeader
  <2>3. i # none(HTTP_REQUEST_RANGE_NOT_SATISFIABLE)
    BY <1>3
  <2> HIDE DEF r, none
  <2> QED BY <1>1, <2>1, <2>2, <2>3
<1>7. \A o, s : Instruction(o, s).offset = o /\ Instruction(o, s).size = s /\ Instruction(o, s).active = TRUE
  BY DEF Instruction
<1>8. i.offset = first /\ i.size = last - first + 1 /\ i.active = TRUE /\ first \in Nat /\ i.size \in Nat
      /\ first + i.size <= n
  BY <1>1, <1>5, <1>6, <1>7 DEF first, last
<1> QED BY <1>4, <1>8 DEF Run

\* What process_request decides to send is what was asked for, and lies in the resource.
LEMMA RequestGranted ==
  ASSUME NEW r \in Requests, NEW n \in Nat, NEW i, i = CheckOtherHTTPHeaders(r, n), i.code = OK
  PROVE  Grants(i, r.range, n)
<1>1. r.te \in BOOLEAN /\ i.chunked = r.te
  BY RequestsAssumption DEF CheckOtherHTTPHeaders
<1>2. CASE r.range = NULL
  <2>1. i.offset = 0 /\ i.size = n /\ i.active = FALSE
    BY <1>2 DEF CheckOtherHTTPHeaders
  <2>2. Wanted(NULL, n) = [j \in 1..(n - 1 - 0 + 1) |-> 0 + j - 1]
    BY DEF Wanted
  <2>3. Wanted(r.range, n) = Run(0, n)
    BY <1>2, <2>2 DEF Run
  <2>4. i.active \in BOOLEAN /\ i.chunked \in BOOLEAN
    BY <1>1, <2>1
  <2>5. Wanted(r.range, n) = Run(i.offset, i.size)
    BY <2>1, <2>3
  <2> QED BY <2>1, <2>4, <2>5 DEF Grants
<1>3. CASE r.range # NULL
  <2> DEFINE h == CreateHTTPRangeResponseHeader(r.range, n)
             spec == r.range
  <2>1. i.code = h.code /\ i.offset = h.offset /\ i.size = h.size /\ i.active = h.active
    BY <1>3 DEF CheckOtherHTTPHeaders
  <2>2. spec.unit = "bytes"
    BY <2>1 DEF CreateHTTPRangeResponseHeader, OK, HTTP_BAD_REQUEST
  <2>3. spec.ranges # <<>> /\ spec.ranges \in Seq([first : Nat \cup {-1}, last : Nat \cup {-1}])
    BY <1>3, <2>2, RequestsAssumption
  <2> HIDE DEF spec
  <2>4. spec.ranges[1] \in [first : Nat \cup {-1}, last : Nat \cup {-1}] /\ Head(spec.ranges) = spec.ranges[1]
    <3> DEFINE ranges == spec.ranges  T == [first : Nat \cup {-1}, last : Nat \cup {-1}]
    <3>1. ranges \in Seq(T) /\ ranges # <<>>
      BY <2>3
    <3> HIDE DEF ranges, T
    <3>2. ranges[1] \in T /\ Head(ranges) = ranges[1]
      BY <3>1
    <3> QED BY <3>2 DEF ranges, T
  <2>5. h.code = OK /\ h = CreateHTTPRangeResponseHeader(spec, n) /\ spec # NULL
    BY <1>3, <2>1 DEF spec
  <2> HIDE DEF h
  <2>6. /\ h.offset \in Nat /\ h.size \in Nat /\ h.offset + h.size <= n
        /\ Wanted(spec, n) = Run(h.offset, h.size) /\ h.active = TRUE
    BY <2>2, <2>4, <2>5, RangeGranted
  <2> QED BY <1>1, <1>3, <2>1, <2>6 DEF Grants, spec
<1> QED BY <1>2, <1>3
-----------------------------------------------------------------------------
(* Runs of bytes. *)

LEMMA Runs ==
  ASSUME NEW o \in Int, NEW k \in Nat
  PROVE  Run(o, k) \in Seq(Int) /\ Len(Run(o, k)) = k /\ (k = 0 => Run(o, k) = <<>>)
<1>1. Run(o, k) \in [1..k -> Int]
  BY DEF Run
<1>2. Run(o, k) \in Seq(Int) /\ Len(Run(o, k)) = k
  BY <1>1
<1> QED BY <1>2

LEMMA RunGoesOn ==
  ASSUME NEW o \in Int, NEW k \in Nat, NEW n \in Nat
  PROVE  Run(o, k) \o Run(o + k, n) = Run(o, k + n)
<1> DEFINE a == Run(o, k)  b == Run(o + k, n)  r == Run(o, k + n)
<1>1. /\ a \in Seq(Int) /\ Len(a) = k /\ b \in Seq(Int) /\ Len(b) = n /\ r \in Seq(Int) /\ Len(r) = k + n
      /\ k + n \in Nat
  BY Runs
<1>2. /\ \A i \in 1..k : a[i] = o + i - 1
      /\ \A i \in 1..n : b[i] = o + k + i - 1
      /\ \A i \in 1..(k + n) : r[i] = o + i - 1
  BY DEF Run
<1> HIDE DEF a, b, r
<1>3. a \o b \in Seq(Int) /\ Len(a \o b) = k + n
  BY <1>1, ConcatProperties
<1>4. \A i \in 1..(k + n) : (a \o b)[i] = r[i]
  <2> SUFFICES ASSUME NEW i \in 1..(k + n) PROVE (a \o b)[i] = r[i]
    OBVIOUS
  <2>1. (a \o b)[i] = IF i <= k THEN a[i] ELSE b[i - k]
    BY <1>1, ConcatProperties
  <2>2. CASE i <= k
    BY <1>2, <2>1, <2>2
  <2>3. CASE ~(i <= k)
    <3>1. i - k \in 1..n
      BY <2>3
    <3> QED BY <1>2, <2>1, <2>3, <3>1
  <2> QED BY <2>2, <2>3
<1>5. a \o b = r
  BY <1>1, <1>3, <1>4, SeqEqual
<1> QED BY <1>5 DEF a, b, r

-----------------------------------------------------------------------------
(* The invariant, of a job j, the client r at its other end, what was answered d, the ends cl *)
(* that closed the connection and the files that are posted to.                               *)

PostedFiles == {remove_dots(req(b).path) : b \in {b \in Conns : req(b) # NULL /\ req(b).method = "POST"}}

FilesKept ==
  /\ \A file \in DOMAIN files : files[file] \in [length : Nat, directory : BOOLEAN, readable : BOOLEAN]
  /\ \A file \in DOMAIN files \cup DOMAIN InitialFiles : file \notin PostedFiles =>
       file \in DOMAIN files /\ file \in DOMAIN InitialFiles /\ files[file] = InitialFiles[file]

Asked(r) == r.req # NULL /\ r.req.method = "GET"

Length(j) ==
  IF j.file = NULL THEN DocLength
  ELSE IF j.virtual THEN dlna_http_get_info(Virtual, j.file).file_length
  ELSE InitialFiles[j.file].length

Judged(j, r, posted) ==
  /\ j.file # NULL /\ ~j.virtual => j.file \notin posted
  /\ j.file = NULL => r.req.range = NULL

\* The answer is one that the property is about.
Delivers(j, r, d, posted) ==
  d.head # NULL /\ d.head.status \in {OK, HTTP_PARTIAL_CONTENT} /\ Judged(j, r, posted)

Readable(j) ==
  IF j.virtual THEN dlna_http_get_info(Virtual, j.file) # NULL /\ dlna_http_get_info(Virtual, j.file).is_readable
               ELSE j.file \in DOMAIN InitialFiles

HandleOK(j) ==
  /\ {"type", "name", "pos", "len"} \subseteq DOMAIN j.fp
  /\ \/ j.fp.type = "MEMORY" /\ j.fp.len = Length(j)
     \/ j.fp.type = "LOCAL" /\ j.virtual /\ Virtual.disk[j.fp.name].length = Length(j)
     \/ j.fp.type = "LOCAL" /\ ~j.virtual /\ j.fp.name = j.file /\ j.file \in DOMAIN InitialFiles /\ j.file # NULL

\* The head promises what was asked for, and the body is as much of it as was sent.
Answering(j, r, d, cl) ==
  /\ Grants(j.instr, r.req.range, Length(j)) /\ d.head = AnswerHead(j.instr)
  /\ Len(d.body) \in 0..j.instr.size /\ d.body = Run(j.instr.offset, Len(d.body)) /\ ~d.end
  /\ j.file # NULL /\ ~j.virtual => j.file \in DOMAIN InitialFiles
  /\ j.pc \in {"document", "open"} => d.body = <<>>
  /\ j.pc = "document" => j.file = NULL
  /\ j.pc = "open" => j.left = j.instr.size /\ j.file \in Seq(STRING) /\ Readable(j)
  /\ j.pc = "send" => /\ j.left \in 0..j.instr.size /\ Len(d.body) = j.instr.size - j.left
                      /\ j.fp.pos = j.instr.offset + j.instr.size - j.left /\ HandleOK(j)
  /\ j.pc = "done" => Len(d.body) = j.instr.size \/ "client" \in cl

Before == {"none", "grab", "resolve"}
After == {"document", "open", "send", "done"}

Server(j, r, d, cl, posted) ==
  /\ "server" \in cl => j.pc = "done"
  /\ Asked(r) =>
       /\ j.pc \in Before \cup After
       /\ j.pc \in Before => d.head = NULL /\ d.body = <<>> /\ ~d.end
       /\ j.pc \in {"grab", "resolve"} => j.file \in Seq(STRING)
       /\ j.pc \in After => d.head # NULL
       /\ Delivers(j, r, d, posted) => Answering(j, r, d, cl)

Poster(j, r) ==
  /\ j.have \in Int /\ j.virtual \in BOOLEAN
  /\ j.pc \in {"grab", "resolve"} => j.file = remove_dots(r.req.path)
  /\ j.pc = "post" => r.req.method = "POST" /\ j.file \in {NULL, remove_dots(r.req.path)}
  /\ j.pc = "recv" => /\ r.req.method = "POST" /\ j.file = remove_dots(r.req.path)
                      /\ j.left \in Int
                      /\ r.req.chunked \/ r.req.clen # NULL

Waiting == {"start", "write", "head"}

Reader(j, r, d, cl, posted) ==
  /\ r.pc \in Waiting \cup {"read", "done"}
  /\ r.pc \in Waiting => r.entity = <<>> /\ ~r.complete /\ r.offset = 0
  /\ r.pc # "done" => r.ret = NULL /\ "client" \notin cl
  /\ Asked(r) /\ d.head = NULL => r.pc \in Waiting \/ (r.pc = "done" /\ r.ret \notin {"SUCCESS", "closed"})
  /\ Asked(r) /\ Delivers(j, r, d, posted) =>
       /\ r.pc = "read" =>
            /\ Len(r.entity) \in 0..j.instr.size /\ r.entity = Run(j.instr.offset, Len(r.entity))
            /\ r.offset \in Int
            /\ r.complete => Len(r.entity) = j.instr.size
       /\ r.ret \in {"SUCCESS", "closed"} => r.entity = Run(j.instr.offset, j.instr.size)

Idle(j, r, head) ==
  /\ r.req \in Requests \cup {NULL}
  /\ r.req = NULL => r.pc = "done" /\ r.ret = NULL /\ ~head /\ j.pc = "none"

JobFields == {"pc", "alias", "stale", "virtual", "file", "instr", "fp", "left", "have", "whole"}
Shape(j, r, d) ==
  /\ JobFields \subseteq DOMAIN j
  /\ {"pc", "req", "entity", "complete", "offset", "cancel", "ret"} \subseteq DOMAIN r
  /\ {"head", "body", "end"} \subseteq DOMAIN d

ConnOK(j, r, d, cl, head, posted) ==
  /\ Shape(j, r, d) /\ Server(j, r, d, cl, posted) /\ Poster(j, r) /\ Reader(j, r, d, cl, posted) /\ Idle(j, r, head)

WireOK(u) == {"head", "bytes", "end"} \subseteq DOMAIN u /\ u.bytes \in Int

Tables ==
  /\ DOMAIN job = Conns /\ DOMAIN client = Conns /\ DOMAIN down = Conns /\ DOMAIN closed = Conns /\ DOMAIN up = Conns
  /\ \A c \in Conns : WireOK(up[c])

DownloadInv ==
  Tables /\ FilesKept /\ \A c \in Conns : ConnOK(job[c], client[c], down[c], closed[c], up[c].head, PostedFiles)

LEMMA PostedKept ==
  ASSUME \A b \in Conns : client'[b].req = client[b].req
  PROVE  PostedFiles' = PostedFiles
<1>1. \A b \in Conns : req(b)' = req(b)
  BY DEF req
<1> QED BY <1>1 DEF PostedFiles

\* A step of one connection leaves the others alone.
LEMMA OthersKept ==
  ASSUME DownloadInv, NEW c \in Conns, Tables', FilesKept', \A b \in Conns : client'[b].req = client[b].req,
         \A b \in Conns : b # c => job'[b] = job[b] /\ client'[b] = client[b] /\ down'[b] = down[b]
                                  /\ closed'[b] = closed[b] /\ up'[b].head = up[b].head,
         ConnOK(job'[c], client'[c], down'[c], closed'[c], up'[c].head, PostedFiles)
  PROVE  DownloadInv'
<1>1. PostedFiles' = PostedFiles
  BY PostedKept
<1>2. \A b \in Conns : ConnOK(job'[b], client'[b], down'[b], closed'[b], up'[b].head, PostedFiles)
  BY DEF DownloadInv
<1> QED BY <1>1, <1>2 DEF DownloadInv
-----------------------------------------------------------------------------
(* Steps of a client. *)

ClientFields == {"pc", "req", "entity", "complete", "offset", "cancel", "ret"}

LEMMA ClientMoves ==
  ASSUME NEW j, NEW r, NEW d, NEW cl, NEW head, NEW posted, ConnOK(j, r, d, cl, head, posted), r.pc # "done",
         NEW r2, r2.req = r.req, ClientFields \subseteq DOMAIN r2,
         NEW cl2, cl2 = cl \/ cl2 = cl \cup {"client"}, NEW head2, Reader(j, r2, d, cl2, posted)
  PROVE  ConnOK(j, r2, d, cl2, head2, posted)
<1>1. Shape(j, r2, d) /\ Poster(j, r2) /\ Idle(j, r2, head2)
  BY DEF ConnOK, Shape, Poster, Idle, ClientFields
<1>2. Asked(r2) <=> Asked(r)
  BY DEF Asked
<1>3. Delivers(j, r2, d, posted) <=> Delivers(j, r, d, posted)
  BY DEF Delivers, Judged
<1>4. Answering(j, r, d, cl) => Answering(j, r2, d, cl2)
  BY DEF Answering
<1>5. Server(j, r2, d, cl2, posted)
  BY <1>2, <1>3, <1>4 DEF ConnOK, Server
<1> QED BY <1>1, <1>5 DEF ConnOK

LEMMA ClientStep ==
  ASSUME DownloadInv, NEW c \in Conns, UNCHANGED <<job, down, files>>, client[c].pc # "done",
         NEW r, r.req = client[c].req, ClientFields \subseteq DOMAIN r, client' = [client EXCEPT ![c] = r],
         DOMAIN up' = Conns, \A b \in Conns : WireOK(up'[b]) /\ (b # c => up'[b].head = up[b].head),
         \/ UNCHANGED closed /\ Reader(job[c], r, down[c], closed[c], PostedFiles)
         \/ /\ closed' = [closed EXCEPT ![c] = @ \cup {"client"}]
            /\ Reader(job[c], r, down[c], closed[c] \cup {"client"}, PostedFiles)
  PROVE  DownloadInv'
<1>1. Tables /\ DOMAIN client' = Conns /\ client'[c] = r /\ \A b \in Conns : b # c => client'[b] = client[b]
  BY DEF DownloadInv, Tables
<1>2. DOMAIN closed' = Conns /\ \A b \in Conns : b # c => closed'[b] = closed[b]
  BY <1>1 DEF Tables
<1>3. Tables' /\ \A b \in Conns : client'[b].req = client[b].req
  BY <1>1, <1>2 DEF Tables
<1>4. PostedFiles' = PostedFiles
  BY <1>3, PostedKept
<1>5. FilesKept'
  BY <1>4 DEF DownloadInv, FilesKept
<1>6. ConnOK(job[c], client[c], down[c], closed[c], up[c].head, PostedFiles)
  BY DEF DownloadInv
<1>7. closed'[c] \in {closed[c], closed[c] \cup {"client"}} /\ Reader(job[c], r, down[c], closed'[c], PostedFiles)
  BY <1>1 DEF Tables
<1>8. ConnOK(job[c], r, down[c], closed'[c], up'[c].head, PostedFiles)
  BY <1>6, <1>7, ClientMoves
<1> QED BY <1>1, <1>2, <1>3, <1>5, <1>8, OthersKept

\* What holds of the connection of a client that is not done.
LEMMA ClientFacts ==
  ASSUME DownloadInv, NEW c \in Conns
  PROVE  /\ ClientFields \subseteq DOMAIN client[c]
         /\ Reader(job[c], client[c], down[c], closed[c], PostedFiles)
         /\ Server(job[c], client[c], down[c], closed[c], PostedFiles)
         /\ client[c].pc # "done" => req(c) \in Requests /\ req(c).size \in Nat \ {0}
<1>1. ConnOK(job[c], client[c], down[c], closed[c], up[c].head, PostedFiles)
  BY DEF DownloadInv
<1>2. client[c].pc # "done" => req(c) \in Requests
  BY <1>1 DEF ConnOK, Idle, req
<1> QED BY <1>1, <1>2, RequestsAssumption DEF ConnOK, Shape, ClientFields

\* The client fails, and closes its end.
LEMMA ClientFails ==
  ASSUME DownloadInv, NEW c \in Conns, UNCHANGED <<job, down, files, up>>, client[c].pc # "done",
         NEW r, r.req = client[c].req, ClientFields \subseteq DOMAIN r,
         r.ret \notin {"SUCCESS", "closed"}, Ends(c, r)
  PROVE  DownloadInv'
<1> DEFINE r2 == [r EXCEPT !.pc = "done"]
<1>1. client' = [client EXCEPT ![c] = r2] /\ closed' = [closed EXCEPT ![c] = @ \cup {"client"}]
  BY DEF Ends
<1>2. r2.req = client[c].req /\ ClientFields \subseteq DOMAIN r2 /\ r2.pc = "done" /\ r2.ret = r.ret
  BY DEF ClientFields
<1> HIDE DEF r2
<1>3. Reader(job[c], r2, down[c], closed[c] \cup {"client"}, PostedFiles)
  BY <1>2 DEF Reader, Waiting
<1>4. DOMAIN up' = Conns /\ \A b \in Conns : WireOK(up'[b]) /\ (b # c => up'[b].head = up[b].head)
  BY DEF DownloadInv, Tables
<1> QED BY <1>1, <1>2, <1>3, <1>4, ClientStep

\* The client has not read yet, and does not yet.
LEMMA ClientWaits ==
  ASSUME DownloadInv, NEW c \in Conns, UNCHANGED <<job, down, files, closed>>, client[c].pc \in Waiting,
         NEW pc \in Waiting, client' = [client EXCEPT ![c] = [client[c] EXCEPT !.pc = pc]],
         DOMAIN up' = Conns, \A b \in Conns : WireOK(up'[b]) /\ (b # c => up'[b].head = up[b].head)
  PROVE  DownloadInv'
<1> DEFINE r == client[c]  r2 == [client[c] EXCEPT !.pc = pc]
<1>1. /\ ClientFields \subseteq DOMAIN client[c] /\ client[c].pc # "done"
      /\ Reader(job[c], client[c], down[c], closed[c], PostedFiles)
  BY ClientFacts DEF Waiting
<1>2. /\ r2.req = r.req /\ ClientFields \subseteq DOMAIN r2 /\ r2.pc = pc /\ r2.ret = r.ret /\ r2.offset = r.offset
      /\ r2.entity = r.entity /\ r2.complete = r.complete
  BY <1>1 DEF ClientFields
<1> HIDE DEF r2
<1>3. NULL \notin {"SUCCESS", "closed"}
  BY NullAssumption
<1>4. Reader(job[c], r2, down[c], closed[c], PostedFiles)
  BY <1>1, <1>2, <1>3 DEF Reader, Waiting
<1> QED BY <1>1, <1>2, <1>4, ClientStep DEF r2

LEMMA OpensKeeps == ASSUME DownloadInv, NEW c \in Conns, Opens(c) PROVE DownloadInv'
<1>1. client[c].pc = "start" /\ UNCHANGED <<job, down, files>>
  BY DEF Opens
<1>2. CASE UNCHANGED up /\ Ends(c, [client[c] EXCEPT !.ret = "INTERNAL_ERROR"])
  <2> DEFINE r == [client[c] EXCEPT !.ret = "INTERNAL_ERROR"]
  <2>1. ClientFields \subseteq DOMAIN client[c]
    BY ClientFacts DEF Reader
  <2>2. r.req = client[c].req /\ ClientFields \subseteq DOMAIN r /\ r.ret \notin {"SUCCESS", "closed"}
    BY <2>1 DEF ClientFields
  <2> HIDE DEF r
  <2> QED BY <1>1, <1>2, <2>2, ClientFails DEF r
<1>3. ASSUME NEW pc \in Waiting, Sends(c, pc) PROVE DownloadInv'
  <2>1. up' = [up EXCEPT ![c].head = TRUE] /\ UNCHANGED closed /\ client' = [client EXCEPT ![c] = [client[c] EXCEPT !.pc = pc]]
    BY <1>3 DEF Sends, Goes
  <2>2. DOMAIN up' = Conns /\ \A b \in Conns : WireOK(up'[b]) /\ (b # c => up'[b].head = up[b].head)
    BY <2>1 DEF DownloadInv, Tables, WireOK
  <2>3. client[c].pc \in Waiting
    BY <1>1 DEF Waiting
  <2> QED BY <1>1, <2>1, <2>2, <2>3, ClientWaits
<1>4. "head" \in Waiting /\ "write" \in Waiting
  BY DEF Waiting
<1> QED BY <1>2, <1>3, <1>4 DEF Opens, http_OpenHttpGetProxy, http_OpenHttpGetEx, http_Download, http_OpenHttpPost

LEMMA WritesKeeps ==
  ASSUME DownloadInv, NEW c \in Conns, http_WriteHttpPost(c) \/ http_CloseHttpPost(c)
  PROVE  DownloadInv'
<1>1. client[c].pc = "write" /\ client[c].pc \in Waiting /\ UNCHANGED <<job, down, files, closed>>
  BY DEF http_WriteHttpPost, http_CloseHttpPost, Waiting
<1>2. DOMAIN up' = Conns /\ \A b \in Conns : WireOK(up'[b]) /\ (b # c => up'[b].head = up[b].head)
  <2>1. DOMAIN up = Conns /\ \A b \in Conns : WireOK(up[b])
    BY DEF DownloadInv, Tables
  <2>2. CASE http_CloseHttpPost(c)
    BY <2>1, <2>2 DEF http_CloseHttpPost, WireOK
  <2>3. CASE http_WriteHttpPost(c)
    <3> DEFINE n == Min({up[c].bytes + req(c).size, req(c).body})
    <3>1. up' = [up EXCEPT ![c].bytes = n]
      BY <2>1, <2>3 DEF http_WriteHttpPost
    <3>2. up[c].bytes + req(c).size \in Int /\ req(c).body \in Int
      BY <1>1, <2>1, ClientFacts, RequestsAssumption DEF WireOK
    <3>3. n \in Int
      <4> DEFINE a == up[c].bytes + req(c).size  b == req(c).body
      <4>1. a \in Int /\ b \in Int
        BY <3>2
      <4> HIDE DEF a, b
      <4>2. Min({a, b}) = IF a <= b THEN a ELSE b
        BY <4>1, MinMax, Zenon
      <4> QED BY <4>1, <4>2 DEF a, b
    <3> HIDE DEF n
    <3> QED BY <2>1, <3>1, <3>3 DEF WireOK
  <2> QED BY <2>2, <2>3
<1>3. CASE http_WriteHttpPost(c)
  <2>1. UNCHANGED client
    BY <1>3 DEF http_WriteHttpPost
  <2>2. Tables' /\ \A b \in Conns : client'[b].req = client[b].req
    BY <1>1, <1>2, <2>1 DEF DownloadInv, Tables
  <2>3. FilesKept'
    BY <1>1, <2>2, PostedKept DEF DownloadInv, FilesKept
  <2>4. ConnOK(job[c], client[c], down[c], closed[c], up[c].head, PostedFiles)
    BY DEF DownloadInv
  <2>5. ClientFields \subseteq DOMAIN client[c] /\ Reader(job[c], client[c], down[c], closed[c], PostedFiles)
    BY ClientFacts
  <2>6. ConnOK(job[c], client[c], down[c], closed[c], up'[c].head, PostedFiles)
    BY <1>1, <2>4, <2>5, ClientMoves
  <2> QED BY <1>1, <1>2, <2>1, <2>2, <2>3, <2>6, OthersKept
<1>4. CASE http_CloseHttpPost(c)
  <2>1. client' = [client EXCEPT ![c] = [client[c] EXCEPT !.pc = "head"]] /\ "head" \in Waiting
    BY <1>4 DEF http_CloseHttpPost, Waiting
  <2> QED BY <1>1, <1>2, <2>1, ClientWaits
<1> QED BY <1>3, <1>4

LEMMA AbortKeeps == ASSUME DownloadInv, NEW c \in Conns, Abort(c) PROVE DownloadInv'
<1> DEFINE r == [client[c] EXCEPT !.ret = "aborted"]
<1>1. client[c].pc = "write" /\ UNCHANGED <<job, down, files, up>> /\ Ends(c, r)
  BY DEF Abort
<1>2. ClientFields \subseteq DOMAIN client[c]
  BY ClientFacts DEF Reader
<1>3. r.req = client[c].req /\ ClientFields \subseteq DOMAIN r /\ r.ret \notin {"SUCCESS", "closed"}
  BY <1>2 DEF ClientFields
<1> HIDE DEF r
<1> QED BY <1>1, <1>3, ClientFails

\* What the parser has made of an answer is a part of what was asked for, and all of it once it is complete.
LEMMA EntityIsPart ==
  ASSUME DownloadInv, NEW c \in Conns, Asked(client[c]), Delivers(job[c], client[c], down[c], PostedFiles)
  PROVE  LET i == job[c].instr IN
         /\ i.offset \in Nat /\ i.size \in Nat
         /\ Entity(c) = Run(i.offset, Len(Entity(c))) /\ Len(Entity(c)) \in 0..i.size
         /\ Complete(c) => Len(Entity(c)) = i.size
         /\ ~UntilClose(c)
<1> DEFINE i == job[c].instr  h == down[c].head  body == down[c].body
<1>1. Answering(job[c], client[c], down[c], closed[c])
  BY ClientFacts DEF Server
<1>2. /\ i.offset \in Nat /\ i.size \in Nat /\ i.chunked \in BOOLEAN /\ h = AnswerHead(i)
      /\ Len(body) \in 0..i.size /\ body = Run(i.offset, Len(body)) /\ ~down[c].end
  BY <1>1 DEF Answering, Grants
<1> HIDE DEF i
<1>3. h.chunked = i.chunked /\ h.clen = IF i.chunked THEN NULL ELSE i.size
  BY <1>2 DEF AnswerHead
<1>4. NULL # i.size
  BY <1>2, NullAssumption
<1>5. body \in Seq(Int) /\ Len(body) \in Nat /\ Len(body) <= i.size
  BY <1>2, Runs
<1>6. Entity(c) = body
  <2>1. CASE h.clen = NULL
    BY <2>1 DEF Entity
  <2>2. CASE h.clen # NULL
    <3>1. h.clen = i.size
      BY <1>3, <2>2
    <3>2. Min({i.size, Len(body)}) = IF i.size <= Len(body) THEN i.size ELSE Len(body)
      <4>1. i.size \in Int /\ Len(body) \in Int
        BY <1>2, <1>5
      <4> QED BY <4>1, MinMax, Zenon
    <3>3. Min({h.clen, Len(body)}) = Len(body)
      BY <1>2, <1>5, <3>1, <3>2
    <3>4. SubSeq(body, 1, Len(body)) = body
      BY <1>5, SubSeqFull
    <3> QED BY <2>2, <3>3, <3>4 DEF Entity
  <2> QED BY <2>1, <2>2
<1>7. Complete(c) => Len(body) = i.size
  BY <1>2, <1>3, <1>4, <1>5 DEF Complete
<1>8. ~UntilClose(c)
  BY <1>2, <1>3, <1>4 DEF UntilClose
<1> QED BY <1>2, <1>5, <1>6, <1>7, <1>8 DEF i

LEMMA HeadRead == ASSUME DownloadInv, NEW c \in Conns, ReadResponseLineAndHeaders(c) PROVE DownloadInv'
<1>1. client[c].pc = "head" /\ client[c].pc # "done" /\ UNCHANGED <<job, down, files, up>>
  BY DEF ReadResponseLineAndHeaders
<1>2. ClientFields \subseteq DOMAIN client[c] /\ Reader(job[c], client[c], down[c], closed[c], PostedFiles)
  BY ClientFacts
<1>3. DOMAIN up' = Conns /\ \A b \in Conns : WireOK(up'[b]) /\ (b # c => up'[b].head = up[b].head)
  BY <1>1 DEF DownloadInv, Tables
<1>4. CASE Ends(c, [client[c] EXCEPT !.ret = "BAD_RESPONSE"])
  <2> DEFINE r == [client[c] EXCEPT !.ret = "BAD_RESPONSE"]
  <2>1. r.req = client[c].req /\ ClientFields \subseteq DOMAIN r /\ r.ret \notin {"SUCCESS", "closed"}
    BY <1>2 DEF ClientFields, Reader
  <2> HIDE DEF r
  <2> QED BY <1>1, <1>4, <2>1, ClientFails DEF r
<1>5. CASE ~Bad(c) /\ Goes(c, [client[c] EXCEPT !.pc = "read"])
  <2> DEFINE r == [client[c] EXCEPT !.pc = "read"]
  <2>1. down[c].head # NULL /\ client' = [client EXCEPT ![c] = r] /\ UNCHANGED closed
    BY <1>5 DEF Bad, Goes
  <2>2. /\ r.req = client[c].req /\ ClientFields \subseteq DOMAIN r /\ r.pc = "read" /\ r.ret = NULL /\ r.entity = <<>>
        /\ ~r.complete /\ r.offset = 0 /\ "client" \notin closed[c]
    BY <1>1, <1>2 DEF ClientFields, Reader, Waiting
  <2> HIDE DEF r
  <2>3. Asked(r) /\ Delivers(job[c], r, down[c], PostedFiles) =>
          job[c].instr.offset \in Nat /\ job[c].instr.size \in Nat
    <3>1. ASSUME Asked(r), Delivers(job[c], r, down[c], PostedFiles)
          PROVE  Asked(client[c]) /\ Delivers(job[c], client[c], down[c], PostedFiles)
      BY <2>2, <3>1 DEF Asked, Delivers, Judged
    <3> QED BY <3>1, EntityIsPart
  <2>4. \A o \in Nat : Len(<<>>) = 0 /\ <<>> = Run(o, 0)
    BY Runs
  <2>5. NULL \notin {"SUCCESS", "closed"}
    BY NullAssumption
  <2>6. Reader(job[c], r, down[c], closed[c], PostedFiles)
    BY <2>1, <2>2, <2>3, <2>4, <2>5 DEF Reader, Waiting
  <2> QED BY <1>1, <1>3, <2>1, <2>2, <2>6, ClientStep
<1> QED BY <1>4, <1>5 DEF ReadResponseLineAndHeaders

\* A client that reads: what it has, and what it returns, is a part of what it asked for.
LEMMA ReadingGoesOn ==
  ASSUME DownloadInv, NEW c \in Conns, client[c].pc = "read", UNCHANGED <<job, down, files, up>>,
         NEW r, r.req = client[c].req, ClientFields \subseteq DOMAIN r, r.pc \in {"read", "done"},
         \/ UNCHANGED closed /\ r.ret = NULL
         \/ closed' = [closed EXCEPT ![c] = @ \cup {"client"}] /\ r.pc = "done",
         client' = [client EXCEPT ![c] = r],
         Asked(client[c]) /\ down[c].head # NULL /\ Delivers(job[c], client[c], down[c], PostedFiles) =>
           /\ Len(r.entity) \in 0..job[c].instr.size /\ r.entity = Run(job[c].instr.offset, Len(r.entity))
           /\ r.pc = "read" => r.offset \in Int
           /\ (r.pc = "read" /\ r.complete) \/ r.ret \in {"SUCCESS", "closed"} => Len(r.entity) = job[c].instr.size
  PROVE  DownloadInv'
<1>1. /\ Reader(job[c], client[c], down[c], closed[c], PostedFiles) /\ client[c].pc # "done"
  BY ClientFacts
<1>2. DOMAIN up' = Conns /\ \A b \in Conns : WireOK(up'[b]) /\ (b # c => up'[b].head = up[b].head)
  BY DEF DownloadInv, Tables
<1>3. NULL \notin {"SUCCESS", "closed"}
  BY NullAssumption
<1>4. Asked(client[c]) => down[c].head # NULL
  BY <1>1 DEF Reader, Waiting
<1>5. Asked(r) /\ Delivers(job[c], r, down[c], PostedFiles) =>
        Asked(client[c]) /\ Delivers(job[c], client[c], down[c], PostedFiles)
  BY DEF Asked, Delivers, Judged
<1>6. Asked(r) <=> Asked(client[c])
  BY DEF Asked
<1>7. ASSUME NEW cl, r.pc # "done" => r.ret = NULL /\ "client" \notin cl
      PROVE  Reader(job[c], r, down[c], cl, PostedFiles)
  BY <1>3, <1>4, <1>5, <1>6, <1>7 DEF Reader, Waiting
<1>8. \/ UNCHANGED closed /\ Reader(job[c], r, down[c], closed[c], PostedFiles)
      \/ /\ closed' = [closed EXCEPT ![c] = @ \cup {"client"}]
         /\ Reader(job[c], r, down[c], closed[c] \cup {"client"}, PostedFiles)
  BY <1>1, <1>7 DEF Reader
<1> QED BY <1>1, <1>2, <1>8, ClientStep

\* What is known of a client that reads an answer the property is about.
LEMMA ReadingFacts ==
  ASSUME DownloadInv, NEW c \in Conns, client[c].pc = "read"
  PROVE  /\ ClientFields \subseteq DOMAIN client[c] /\ client[c].ret = NULL
         /\ req(c).size \in Nat \ {0}
         /\ Asked(client[c]) /\ down[c].head # NULL /\ Delivers(job[c], client[c], down[c], PostedFiles) =>
              /\ Len(client[c].entity) \in 0..job[c].instr.size /\ job[c].instr.size \in Nat
              /\ client[c].entity = Run(job[c].instr.offset, Len(client[c].entity))
              /\ client[c].offset \in Int
              /\ client[c].complete => Len(client[c].entity) = job[c].instr.size
<1>1. /\ Reader(job[c], client[c], down[c], closed[c], PostedFiles) /\ ClientFields \subseteq DOMAIN client[c]
      /\ req(c).size \in Nat \ {0}
  BY ClientFacts
<1>2. Asked(client[c]) /\ Delivers(job[c], client[c], down[c], PostedFiles) => job[c].instr.size \in Nat
  BY EntityIsPart
<1> QED BY <1>1, <1>2 DEF Reader

LEMMA MoreRead == ASSUME DownloadInv, NEW c \in Conns, ReadMore(c) PROVE DownloadInv'
<1>1. client[c].pc = "read" /\ UNCHANGED <<job, down, files, up>>
  BY DEF ReadMore
<1> DEFINE Mine == Asked(client[c]) /\ down[c].head # NULL /\ Delivers(job[c], client[c], down[c], PostedFiles)
           size == job[c].instr.size
           offset == job[c].instr.offset
<1>2. /\ ClientFields \subseteq DOMAIN client[c] /\ client[c].ret = NULL
      /\ Mine => /\ Len(client[c].entity) \in 0..size /\ size \in Nat
                 /\ client[c].entity = Run(offset, Len(client[c].entity))
                 /\ client[c].offset \in Int
                 /\ client[c].complete => Len(client[c].entity) = size
  BY <1>1, ReadingFacts
<1>3. Mine => /\ Entity(c) = Run(offset, Len(Entity(c))) /\ Len(Entity(c)) \in 0..size
              /\ (Complete(c) => Len(Entity(c)) = size) /\ ~UntilClose(c)
  BY EntityIsPart
<1>4. CASE Goes(c, [client[c] EXCEPT !.entity = Entity(c), !.complete = Complete(c)])
  <2> DEFINE r == [client[c] EXCEPT !.entity = Entity(c), !.complete = Complete(c)]
  <2>1. UNCHANGED closed /\ client' = [client EXCEPT ![c] = r]
    BY <1>4 DEF Goes
  <2>2. /\ r.req = client[c].req /\ ClientFields \subseteq DOMAIN r /\ r.pc = "read" /\ r.ret = NULL
        /\ r.offset = client[c].offset /\ r.entity = Entity(c) /\ r.complete = Complete(c)
    BY <1>1, <1>2 DEF ClientFields
  <2> HIDE DEF r
  <2>3. NULL \notin {"SUCCESS", "closed"}
    BY NullAssumption
  <2>4. Mine => /\ Len(r.entity) \in 0..size /\ r.entity = Run(offset, Len(r.entity))
                /\ r.pc = "read" => r.offset \in Int
                /\ (r.pc = "read" /\ r.complete) \/ r.ret \in {"SUCCESS", "closed"} => Len(r.entity) = size
    BY <1>2, <1>3, <2>2, <2>3
  <2> QED BY <1>1, <1>2, <2>1, <2>2, <2>4, ReadingGoesOn
<1>5. CASE Goes(c, [client[c] EXCEPT !.complete = TRUE]) /\ UntilClose(c)
  <2> DEFINE r == [client[c] EXCEPT !.complete = TRUE]
  <2>1. UNCHANGED closed /\ client' = [client EXCEPT ![c] = r]
    BY <1>5 DEF Goes
  <2>2. /\ r.req = client[c].req /\ ClientFields \subseteq DOMAIN r /\ r.pc = "read" /\ r.ret = NULL
        /\ r.offset = client[c].offset
    BY <1>1, <1>2 DEF ClientFields
  <2> HIDE DEF r
  <2>3. ~Mine
    BY <1>3, <1>5
  <2> QED BY <1>1, <1>2, <2>1, <2>2, <2>3, ReadingGoesOn
<1>6. CASE Ends(c, [client[c] EXCEPT !.ret = "BAD_HTTPMSG"])
  <2> DEFINE r == [client[c] EXCEPT !.ret = "BAD_HTTPMSG"]
  <2>1. r.req = client[c].req /\ ClientFields \subseteq DOMAIN r /\ r.ret \notin {"SUCCESS", "closed"}
    BY <1>2 DEF ClientFields
  <2> HIDE DEF r
  <2> QED BY <1>1, <1>6, <2>1, ClientFails DEF r
<1> QED BY <1>4, <1>5, <1>6 DEF ReadMore

LEMMA PieceRead == ASSUME DownloadInv, NEW c \in Conns, http_ReadHttpGet(c) PROVE DownloadInv'
<1> DEFINE n == Min({req(c).size, Len(client[c].entity) - client[c].offset})
           r1 == [client[c] EXCEPT !.offset = @ + n]
<1>1. /\ client[c].pc = "read" /\ ~Needs(c) /\ UNCHANGED <<job, down, files, up>>
      /\ IF r1.cancel THEN Ends(c, [r1 EXCEPT !.ret = "CANCELED"])
         ELSE IF n = 0 THEN Ends(c, [r1 EXCEPT !.ret = "SUCCESS"])
         ELSE Goes(c, r1)
  BY DEF http_ReadHttpGet
<1> DEFINE Mine == Asked(client[c]) /\ down[c].head # NULL /\ Delivers(job[c], client[c], down[c], PostedFiles)
           size == job[c].instr.size
           offset == job[c].instr.offset
<1>2. /\ ClientFields \subseteq DOMAIN client[c] /\ client[c].ret = NULL /\ req(c).size \in Nat \ {0}
      /\ Mine => /\ Len(client[c].entity) \in 0..size /\ size \in Nat
                 /\ client[c].entity = Run(offset, Len(client[c].entity))
                 /\ client[c].offset \in Int
                 /\ client[c].complete => Len(client[c].entity) = size
  BY <1>1, ReadingFacts
<1>3. /\ r1.req = client[c].req /\ ClientFields \subseteq DOMAIN r1 /\ r1.pc = "read" /\ r1.ret = NULL
      /\ r1.offset = client[c].offset + n /\ r1.entity = client[c].entity /\ r1.complete = client[c].complete
      /\ r1.cancel = client[c].cancel
  BY <1>1, <1>2 DEF ClientFields
<1>4. Mine => n \in Int /\ (n = 0 => Len(client[c].entity) = client[c].offset)
  <2> SUFFICES ASSUME Mine PROVE n \in Int /\ (n = 0 => Len(client[c].entity) = client[c].offset)
    OBVIOUS
  <2> DEFINE a == req(c).size  b == Len(client[c].entity) - client[c].offset
  <2>1. a \in Int /\ b \in Int /\ a > 0
    BY <1>2
  <2> HIDE DEF a, b
  <2>2. Min({a, b}) = IF a <= b THEN a ELSE b
    BY <2>1, MinMax, Zenon
  <2>3. Min({a, b}) \in Int /\ (Min({a, b}) = 0 => b = 0)
    BY <2>1, <2>2
  <2> QED BY <1>2, <2>3 DEF a, b
<1>5. NULL \notin {"SUCCESS", "closed"}
  BY NullAssumption
<1> HIDE DEF n, r1
<1>6. CASE r1.cancel
  <2> DEFINE r == [r1 EXCEPT !.ret = "CANCELED"]
  <2>1. r.req = client[c].req /\ ClientFields \subseteq DOMAIN r /\ r.ret \notin {"SUCCESS", "closed"}
    BY <1>3 DEF ClientFields
  <2> HIDE DEF r
  <2> QED BY <1>1, <1>6, <2>1, ClientFails DEF r
<1>7. CASE ~r1.cancel /\ n = 0
  <2> DEFINE r == [[r1 EXCEPT !.ret = "SUCCESS"] EXCEPT !.pc = "done"]
  <2>1. client' = [client EXCEPT ![c] = r] /\ closed' = [closed EXCEPT ![c] = @ \cup {"client"}]
    BY <1>1, <1>7 DEF Ends
  <2>2. r.req = client[c].req /\ ClientFields \subseteq DOMAIN r /\ r.pc = "done" /\ r.entity = client[c].entity
    BY <1>3 DEF ClientFields
  <2> HIDE DEF r
  <2>3. Mine => client[c].complete
    BY <1>1, <1>2, <1>3, <1>4, <1>7 DEF Needs
  <2> QED BY <1>1, <1>2, <2>1, <2>2, <2>3, ReadingGoesOn
<1>8. CASE ~r1.cancel /\ n # 0
  <2>1. client' = [client EXCEPT ![c] = r1] /\ UNCHANGED closed
    BY <1>1, <1>8 DEF Goes
  <2>2. Mine => r1.offset \in Int
    BY <1>2, <1>3, <1>4
  <2> QED BY <1>1, <1>2, <1>3, <1>5, <2>1, <2>2, ReadingGoesOn
<1> QED BY <1>6, <1>7, <1>8

LEMMA Cancelled == ASSUME DownloadInv, NEW c \in Conns, http_CancelHttpGet(c) PROVE DownloadInv'
<1> DEFINE r == [client[c] EXCEPT !.cancel = TRUE]
<1>1. client[c].pc = "read" /\ UNCHANGED <<job, down, files, up, closed>> /\ client' = [client EXCEPT ![c] = r]
  BY DEF http_CancelHttpGet, Goes
<1>2. ClientFields \subseteq DOMAIN client[c] /\ client[c].ret = NULL
  BY <1>1, ReadingFacts
<1>3. /\ r.req = client[c].req /\ ClientFields \subseteq DOMAIN r /\ r.pc = "read" /\ r.ret = NULL
      /\ r.offset = client[c].offset /\ r.entity = client[c].entity /\ r.complete = client[c].complete
  BY <1>1, <1>2 DEF ClientFields
<1> HIDE DEF r
<1>4. NULL \notin {"SUCCESS", "closed"}
  BY NullAssumption
<1> QED BY <1>1, <1>3, <1>4, ReadingFacts, ReadingGoesOn

LEMMA MessageReceived == ASSUME DownloadInv, NEW c \in Conns, http_RecvMessage(c) PROVE DownloadInv'
<1> DEFINE ended == Complete(c) \/ UntilClose(c)
           ret == IF Bad(c) \/ ~ended THEN "BAD_HTTPMSG"
                  ELSE IF down[c].head.clen # NULL /\ down[c].head.clen > g_maxContentLength THEN "OUTOF_BOUNDS"
                  ELSE IF req(c).via = "Download" /\ down[c].head.status # OK THEN "STATUS"
                  ELSE "SUCCESS"
           r1 == IF req(c).via = "Foreign" THEN [client[c] EXCEPT !.entity = down[c].body, !.ret = "closed"]
                 ELSE [client[c] EXCEPT !.ret = ret, !.entity = IF ret = "SUCCESS" THEN Entity(c) ELSE <<>>]
           r == [r1 EXCEPT !.pc = "done"]
<1>1. /\ client[c].pc = "head" /\ client[c].pc # "done" /\ UNCHANGED <<job, down, files, up>>
      /\ Gone(c) \/ (req(c).via = "Download" /\ down[c].head # NULL /\ Complete(c))
      /\ Ends(c, r1)
  BY DEF http_RecvMessage
<1>2. client' = [client EXCEPT ![c] = r] /\ closed' = [closed EXCEPT ![c] = @ \cup {"client"}]
  BY <1>1 DEF Ends
<1>3. /\ ClientFields \subseteq DOMAIN client[c]
      /\ Reader(job[c], client[c], down[c], closed[c], PostedFiles)
      /\ Server(job[c], client[c], down[c], closed[c], PostedFiles)
  BY ClientFacts
<1>4. /\ req(c).via = "Foreign" => r1.entity = down[c].body /\ r1.ret = "closed"
      /\ req(c).via # "Foreign" => r1.ret = ret /\ (ret = "SUCCESS" => r1.entity = Entity(c))
      /\ r1.req = client[c].req /\ ClientFields \subseteq DOMAIN r1
  BY <1>3 DEF ClientFields
<1>5. ret \in {"SUCCESS", "closed"} => ~Bad(c) /\ ended
  OBVIOUS
<1> HIDE DEF ended, ret, r1
<1>6. r.pc = "done" /\ r.entity = r1.entity /\ r.ret = r1.ret /\ r.req = client[c].req /\ ClientFields \subseteq DOMAIN r
  BY <1>4 DEF ClientFields
<1> HIDE DEF r
<1>7. Asked(client[c]) /\ Gone(c) => down[c].head # NULL /\ job[c].pc = "done"
  BY <1>3 DEF Gone, Server, After
<1>8. Asked(client[c]) /\ r.ret \in {"SUCCESS", "closed"} => down[c].head # NULL
  <2>1. CASE req(c).via = "Foreign"
    BY <1>1, <1>7, <2>1
  <2>2. CASE req(c).via # "Foreign"
    BY <1>4, <1>5, <1>6, <2>2 DEF Bad
  <2> QED BY <2>1, <2>2
<1>9. ASSUME Asked(client[c]), Delivers(job[c], client[c], down[c], PostedFiles), r.ret \in {"SUCCESS", "closed"}
      PROVE  r.entity = Run(job[c].instr.offset, job[c].instr.size)
  <2>1. Answering(job[c], client[c], down[c], closed[c])
    BY <1>3, <1>9 DEF Server
  <2>2. CASE req(c).via = "Foreign"
    <3>1. job[c].pc = "done" /\ "client" \notin closed[c]
      BY <1>1, <1>3, <1>7, <1>9, <2>2 DEF Reader
    <3> QED BY <1>4, <1>6, <2>1, <2>2, <3>1 DEF Answering
  <2>3. CASE req(c).via # "Foreign"
    <3>1. ended /\ r.entity = Entity(c)
      BY <1>4, <1>5, <1>6, <1>9, <2>3 DEF ret
    <3> QED BY <1>9, <3>1, EntityIsPart DEF ended
  <2> QED BY <2>2, <2>3
<1>10. Asked(r) <=> Asked(client[c])
  BY <1>6 DEF Asked
<1>11. Delivers(job[c], r, down[c], PostedFiles) <=> Delivers(job[c], client[c], down[c], PostedFiles)
  BY <1>6 DEF Delivers, Judged
<1>12. Reader(job[c], r, down[c], closed[c] \cup {"client"}, PostedFiles)
  BY <1>6, <1>8, <1>9, <1>10, <1>11 DEF Reader, Waiting
<1>13. DOMAIN up' = Conns /\ \A b \in Conns : WireOK(up'[b]) /\ (b # c => up'[b].head = up[b].head)
  BY <1>1 DEF DownloadInv, Tables
<1> QED BY <1>1, <1>2, <1>6, <1>12, <1>13, ClientStep

-----------------------------------------------------------------------------
(* Steps of the server. *)

\* What a step of a job must keep, of its connection and of the files.
LEMMA JobStep ==
  ASSUME DownloadInv, NEW c \in Conns, UNCHANGED <<client, up>>,
         DOMAIN job' = Conns, DOMAIN down' = Conns, DOMAIN closed' = Conns,
         \A b \in Conns : b # c => job'[b] = job[b] /\ down'[b] = down[b] /\ closed'[b] = closed[b],
         UNCHANGED files \/ FilesKept',
         JobFields \subseteq DOMAIN job'[c], {"head", "body", "end"} \subseteq DOMAIN down'[c],
         job[c].pc # "none" \/ up[c].head,
         Poster(job'[c], client[c]),
         closed'[c] = closed[c] \/ closed'[c] = closed[c] \cup {"server"},
         Server(job'[c], client[c], down'[c], closed'[c], PostedFiles),
         \/ down[c].head = NULL
         \/ /\ down'[c].head = down[c].head /\ job'[c].instr = job[c].instr
            /\ job'[c].file = job[c].file /\ job'[c].virtual = job[c].virtual
         \/ ~Asked(client[c])
  PROVE  DownloadInv'
<1>1. ConnOK(job[c], client[c], down[c], closed[c], up[c].head, PostedFiles) /\ Tables
  BY DEF DownloadInv
<1>2. Tables' /\ \A b \in Conns : client'[b].req = client[b].req
  BY <1>1 DEF Tables
<1>3. FilesKept'
  <2>1. CASE UNCHANGED files
    BY <1>2, <2>1, PostedKept DEF DownloadInv, FilesKept
  <2> QED BY <2>1
<1>4. Shape(job'[c], client[c], down'[c]) /\ Idle(job'[c], client[c], up[c].head)
  BY <1>1 DEF ConnOK, Shape, Idle
<1>5. Reader(job'[c], client[c], down'[c], closed'[c], PostedFiles)
  <2>1. Reader(job[c], client[c], down[c], closed[c], PostedFiles) /\ NULL \notin {"SUCCESS", "closed"}
    BY <1>1, NullAssumption DEF ConnOK
  <2>2. client[c].pc # "done" => client[c].ret = NULL /\ "client" \notin closed'[c]
    BY <2>1 DEF Reader
  <2>3. CASE ~Asked(client[c])
    BY <2>1, <2>2, <2>3 DEF Reader
  <2>4. CASE Asked(client[c]) /\ down[c].head = NULL
    BY <2>1, <2>2, <2>4 DEF Reader, Waiting, Delivers
  <2>5. CASE Asked(client[c]) /\ down[c].head # NULL
    <3>1. Delivers(job'[c], client[c], down'[c], PostedFiles) => Delivers(job[c], client[c], down[c], PostedFiles)
      BY <2>5 DEF Delivers, Judged
    <3> QED BY <2>1, <2>2, <2>5, <3>1 DEF Reader
  <2> QED BY <2>3, <2>4, <2>5
<1>6. ConnOK(job'[c], client[c], down'[c], closed'[c], up[c].head, PostedFiles)
  BY <1>4, <1>5 DEF ConnOK
<1> QED BY <1>2, <1>3, <1>6, OthersKept

LEMMA JobFacts ==
  ASSUME DownloadInv, NEW c \in Conns
  PROVE  /\ JobFields \subseteq DOMAIN job[c] /\ {"head", "body", "end"} \subseteq DOMAIN down[c]
         /\ Server(job[c], client[c], down[c], closed[c], PostedFiles) /\ Poster(job[c], client[c])
         /\ DOMAIN job = Conns /\ DOMAIN down = Conns /\ DOMAIN closed = Conns
         /\ job[c].pc # "none" \/ up[c].head => req(c) \in Requests /\ req(c) # NULL
<1>1. ConnOK(job[c], client[c], down[c], closed[c], up[c].head, PostedFiles) /\ Tables
  BY DEF DownloadInv
<1>2. job[c].pc # "none" \/ up[c].head => req(c) \in Requests /\ req(c) # NULL
  BY <1>1 DEF ConnOK, Idle, req
<1> QED BY <1>1, <1>2 DEF ConnOK, Shape, Tables

LEMMA AnswerGoesOn ==
  ASSUME DownloadInv, NEW c \in Conns, NEW head, NEW body, Answers(c, head, body)
  PROVE  /\ DOMAIN down' = Conns /\ \A b \in Conns : b # c => down'[b] = down[b]
         /\ {"head", "body", "end"} \subseteq DOMAIN down'[c] /\ down'[c].head = head
         /\ down'[c].body = down[c].body \o body /\ down'[c].end = down[c].end
<1>1. DOMAIN down = Conns /\ {"head", "body", "end"} \subseteq DOMAIN down[c]
  BY JobFacts
<1> QED BY <1>1 DEF Answers

LEMMA JobGoes ==
  ASSUME DownloadInv, NEW c \in Conns, NEW j, Now(c, j)
  PROVE  DOMAIN job' = Conns /\ job'[c] = j /\ \A b \in Conns : b # c => job'[b] = job[b]
<1>1. DOMAIN job = Conns
  BY JobFacts
<1> QED BY <1>1 DEF Now

LEMMA JobCloses ==
  ASSUME DownloadInv, NEW c \in Conns, NEW j, JobFields \subseteq DOMAIN j, Closes(c, j)
  PROVE  /\ DOMAIN job' = Conns /\ \A b \in Conns : b # c => job'[b] = job[b]
         /\ DOMAIN closed' = Conns /\ \A b \in Conns : b # c => closed'[b] = closed[b]
         /\ closed'[c] = closed[c] \cup {"server"}
         /\ JobFields \subseteq DOMAIN job'[c] /\ job'[c].pc = "done"
         /\ job'[c].file = j.file /\ job'[c].virtual = j.virtual /\ job'[c].instr = j.instr
         /\ job'[c].have = j.have
<1>1. DOMAIN job = Conns /\ DOMAIN closed = Conns
  BY JobFacts
<1>2. DOMAIN closed' = Conns /\ (\A b \in Conns : b # c => closed'[b] = closed[b]) /\ closed'[c] = closed[c] \cup {"server"}
  BY <1>1 DEF Closes
<1> DEFINE k == [j EXCEPT !.pc = "done"]
<1>3. JobFields \subseteq DOMAIN k /\ k.pc = "done" /\ k.file = j.file /\ k.virtual = j.virtual /\ k.instr = j.instr
      /\ k.have = j.have
  BY DEF JobFields
<1>4. Now(c, k)
  BY DEF Closes
<1> HIDE DEF k
<1> QED BY <1>2, <1>3, <1>4, JobGoes

Refusals == {HTTP_BAD_REQUEST, HTTP_FORBIDDEN, HTTP_NOT_FOUND, HTTP_REQUEST_RANGE_NOT_SATISFIABLE, HTTP_INTERNAL_SERVER_ERROR}

LEMMA RequestRefused ==
  ASSUME DownloadInv, NEW c \in Conns, UNCHANGED <<client, up, files>>, NEW code \in Refusals,
         http_SendStatusResponse(c, code), job[c].pc \in Before, job[c].pc # "none" \/ up[c].head
  PROVE  DownloadInv'
<1> DEFINE head == [status |-> code, clen |-> 1, chunked |-> FALSE]
<1>1. Answers(c, head, <<0>>) /\ Closes(c, job[c])
  BY DEF http_SendStatusResponse
<1>2. code \in Nat /\ code \notin {OK, HTTP_PARTIAL_CONTENT}
  BY DEF Refusals, HTTP_BAD_REQUEST, HTTP_FORBIDDEN, HTTP_NOT_FOUND, HTTP_REQUEST_RANGE_NOT_SATISFIABLE,
         HTTP_INTERNAL_SERVER_ERROR, OK, HTTP_PARTIAL_CONTENT
<1>3. head # NULL /\ head.status = code
  <2>1. head \in [status : Nat, clen : Nat \cup {NULL}, chunked : BOOLEAN]
    BY <1>2
  <2> QED BY <2>1, NullAssumption
<1> HIDE DEF head
<1>4. /\ DOMAIN down' = Conns /\ \A b \in Conns : b # c => down'[b] = down[b]
      /\ {"head", "body", "end"} \subseteq DOMAIN down'[c] /\ down'[c].head = head
  BY <1>1, AnswerGoesOn
<1>5. /\ JobFields \subseteq DOMAIN job[c] /\ Server(job[c], client[c], down[c], closed[c], PostedFiles)
      /\ job[c].have \in Int /\ job[c].virtual \in BOOLEAN
  BY JobFacts DEF Poster
<1>6. /\ DOMAIN job' = Conns /\ \A b \in Conns : b # c => job'[b] = job[b]
      /\ DOMAIN closed' = Conns /\ \A b \in Conns : b # c => closed'[b] = closed[b]
      /\ closed'[c] = closed[c] \cup {"server"}
      /\ JobFields \subseteq DOMAIN job'[c] /\ job'[c].pc = "done" /\ job'[c].have = job[c].have
      /\ job'[c].virtual = job[c].virtual
  BY <1>1, <1>5, JobCloses
<1>7. Asked(client[c]) => down[c].head = NULL
  BY <1>5 DEF Server
<1>8. Poster(job'[c], client[c])
  BY <1>5, <1>6 DEF Poster
<1>9. Server(job'[c], client[c], down'[c], closed'[c], PostedFiles)
  BY <1>2, <1>3, <1>4, <1>6 DEF Server, Before, After, Delivers
<1> QED BY <1>4, <1>6, <1>7, <1>8, <1>9, JobStep

LEMMA DispatchKeeps == ASSUME DownloadInv, NEW c \in Conns, handle_request(c) PROVE DownloadInv'
<1>1. job[c].pc = "none" /\ job[c].pc \in Before /\ up[c].head /\ UNCHANGED <<client, up, files>> /\ dispatch_request(c)
  BY DEF handle_request, Before
<1>2. HTTP_FORBIDDEN \in Refusals /\ HTTP_BAD_REQUEST \in Refusals /\ HTTP_INTERNAL_SERVER_ERROR \in Refusals
  BY DEF Refusals
<1> DEFINE path == remove_dots(req(c).path)
           virtual == isFileInVirtualDir(pVirtualDirList, path)
           pc == IF ~virtual /\ gAliasDoc.doc # NULL THEN "grab" ELSE "resolve"
           j == [job[c] EXCEPT !.virtual = virtual, !.file = path, !.pc = pc]
<1>3. \/ \E code \in Refusals : http_SendStatusResponse(c, code)
      \/ path # NULL /\ Now(c, j) /\ UNCHANGED <<down, closed>>
  BY <1>1, <1>2 DEF dispatch_request, StartRequest
<1>4. CASE path # NULL /\ Now(c, j) /\ UNCHANGED <<down, closed>>
  <2>1. /\ JobFields \subseteq DOMAIN job[c] /\ {"head", "body", "end"} \subseteq DOMAIN down[c]
        /\ Server(job[c], client[c], down[c], closed[c], PostedFiles) /\ DOMAIN down = Conns /\ DOMAIN closed = Conns
        /\ req(c) \in Requests /\ job[c].have \in Int
    BY <1>1, JobFacts DEF Poster
  <2>2. JobFields \subseteq DOMAIN j /\ j.pc = pc /\ j.file = path /\ j.have = job[c].have
        /\ j.virtual = virtual /\ virtual \in BOOLEAN /\ pc \in {"grab", "resolve"}
    BY <2>1 DEF JobFields, isFileInVirtualDir
  <2>3. path \in Seq(STRING)
    BY <1>4, <2>1, RequestsAssumption
  <2> HIDE DEF j, pc, virtual
  <2>4. DOMAIN job' = Conns /\ job'[c] = j /\ \A b \in Conns : b # c => job'[b] = job[b]
    BY <1>4, JobGoes
  <2>5. Asked(client[c]) => down[c].head = NULL /\ down[c].body = <<>> /\ ~down[c].end
    BY <1>1, <2>1 DEF Server
  <2>6. Poster(j, client[c])
    BY <2>1, <2>2 DEF Poster, req
  <2>7. Server(j, client[c], down[c], closed[c], PostedFiles)
    BY <1>1, <2>1, <2>2, <2>3, <2>5 DEF Server, Before, After, Delivers
  <2> QED BY <1>1, <1>4, <2>1, <2>2, <2>4, <2>5, <2>6, <2>7, JobStep
<1>5. CASE \E code \in Refusals : http_SendStatusResponse(c, code)
  BY <1>1, <1>5, RequestRefused
<1> QED BY <1>3, <1>4, <1>5

LEMMA GrabKeeps == ASSUME DownloadInv, NEW c \in Conns, alias_grab(c) PROVE DownloadInv'
<1>1. job[c].pc = "grab" /\ UNCHANGED <<client, up, files, down, closed>>
  BY DEF alias_grab, wireVars
<1>2. /\ JobFields \subseteq DOMAIN job[c] /\ {"head", "body", "end"} \subseteq DOMAIN down[c]
      /\ Server(job[c], client[c], down[c], closed[c], PostedFiles) /\ Poster(job[c], client[c])
      /\ DOMAIN job = Conns /\ DOMAIN down = Conns /\ DOMAIN closed = Conns
  BY JobFacts
<1>3. CASE UNCHANGED job
  BY <1>1, <1>2, <1>3, JobStep
<1>4. CASE job' # job
  <2> DEFINE j == [job[c] EXCEPT !.alias = gAliasDoc, !.stale = gAliasDoc.doc \in freed, !.pc = "resolve"]
  <2>1. Now(c, j)
    BY <1>4 DEF alias_grab
  <2>2. JobFields \subseteq DOMAIN j /\ j.pc = "resolve" /\ j.file = job[c].file /\ j.have = job[c].have
        /\ j.virtual = job[c].virtual
    BY <1>2 DEF JobFields
  <2> HIDE DEF j
  <2>3. DOMAIN job' = Conns /\ job'[c] = j /\ \A b \in Conns : b # c => job'[b] = job[b]
    BY <2>1, JobGoes
  <2>4. Asked(client[c]) => down[c].head = NULL
    BY <1>1, <1>2 DEF Server, Before
  <2>5. Poster(j, client[c])
    BY <1>1, <1>2, <2>2 DEF Poster
  <2>6. Server(j, client[c], down[c], closed[c], PostedFiles)
    BY <1>1, <1>2, <2>2, <2>4 DEF Server, Before, After, Delivers
  <2> QED BY <1>1, <1>2, <2>2, <2>3, <2>4, <2>5, <2>6, JobStep
<1> QED BY <1>3, <1>4

\* What lies under a name in the virtual directories, when something does.
LEMMA VirtualInfo ==
  ASSUME NEW path, dlna_http_get_info(Virtual, path) # NULL
  PROVE  dlna_http_get_info(Virtual, path).file_length \in Nat
<1> DEFINE id == IdOf(Virtual, path)
           item == Virtual.items[id]
           url == ServiceOf(Virtual, path)
<1>1. CASE url # NULL
  <2>1. url \in DOMAIN Virtual.services
    BY <1>1 DEF ServiceOf
  <2>2. dlna_http_get_info(Virtual, path) = set_service_http_info(Virtual.services[url])
    BY <1>1 DEF dlna_http_get_info
  <2> HIDE DEF url
  <2> QED BY <2>1, <2>2, ContentAssumption DEF set_service_http_info
<1>2. CASE url = NULL
  <2>1. /\ item.filename \in DOMAIN Virtual.disk
        /\ dlna_http_get_info(Virtual, path).file_length = Virtual.disk[item.filename].length
    BY <1>2 DEF dlna_http_get_info
  <2> QED BY <2>1, ContentAssumption
<1> QED BY <1>1, <1>2

\* What process_request finds, or the code that it answers.
LEMMA LookupFinds ==
  ASSUME DownloadInv, NEW virtual \in BOOLEAN, NEW path, NEW found, found = Lookup(virtual, path)
  PROVE  /\ found.code \in {OK} \cup Refusals
         /\ found.code = OK =>
              /\ found.length \in Nat /\ found.file \in {path, Append(path, "index.html")}
              /\ IF virtual THEN /\ dlna_http_get_info(Virtual, found.file) # NULL
                                 /\ dlna_http_get_info(Virtual, found.file).is_readable
                                 /\ found.length = dlna_http_get_info(Virtual, found.file).file_length
                 ELSE found.file \in DOMAIN files /\ found.length = files[found.file].length
<1> DEFINE info(p) == IF virtual THEN dlna_http_get_info(Virtual, p) ELSE get_file_info(files, p)
           dir == info(path) # NULL /\ info(path).is_directory
           file == IF dir THEN Append(path, "index.html") ELSE path
           i == info(file)
<1>1. found = IF i = NULL \/ i.is_directory THEN [code |-> HTTP_NOT_FOUND]
              ELSE IF ~i.is_readable THEN [code |-> HTTP_FORBIDDEN]
              ELSE [code |-> OK, file |-> file, length |-> i.file_length]
  BY DEF Lookup
<1>2. file \in {path, Append(path, "index.html")}
  OBVIOUS
<1> HIDE DEF dir, file
<1>3. CASE i = NULL \/ i.is_directory \/ ~i.is_readable
  <2>1. found.code \in {HTTP_NOT_FOUND, HTTP_FORBIDDEN}
    BY <1>1, <1>3
  <2> QED BY <2>1 DEF Refusals, OK, HTTP_NOT_FOUND, HTTP_FORBIDDEN
<1>4. CASE ~(i = NULL \/ i.is_directory \/ ~i.is_readable)
  <2>1. found.code = OK /\ found.file = file /\ found.length = i.file_length /\ i # NULL /\ i.is_readable
    BY <1>1, <1>4
  <2>2. CASE virtual
    BY <1>2, <2>1, <2>2, VirtualInfo
  <2>3. CASE ~virtual
    <3>1. file \in DOMAIN files /\ i.file_length = files[file].length
      BY <2>1, <2>3 DEF get_file_info
    <3>2. files[file].length \in Nat
      BY <3>1 DEF DownloadInv, FilesKept
    <3> QED BY <1>2, <2>1, <2>3, <3>1, <3>2
  <2> QED BY <2>2, <2>3
<1> QED BY <1>3, <1>4

LEMMA ResolvedFinds ==
  ASSUME DownloadInv, NEW c \in Conns, job[c].pc = "resolve", NEW found, found = Resolved(c), job[c].virtual \in BOOLEAN
  PROVE  /\ found.code \in {OK} \cup Refusals
         /\ found.code = OK =>
              /\ found.length \in Nat
              /\ req(c).method = "POST" => found.file \in {NULL, job[c].file}
              /\ UsingAlias(c) => found.file = NULL /\ found.length = DocLength
              /\ req(c).method # "POST" /\ ~UsingAlias(c) =>
                   /\ found.file \in {job[c].file, Append(job[c].file, "index.html")}
                   /\ IF job[c].virtual THEN /\ dlna_http_get_info(Virtual, found.file) # NULL
                                             /\ dlna_http_get_info(Virtual, found.file).is_readable
                                             /\ found.length = dlna_http_get_info(Virtual, found.file).file_length
                      ELSE found.file \in DOMAIN files /\ found.length = files[found.file].length
<1>1. OK \notin Refusals /\ HTTP_INTERNAL_SERVER_ERROR \in Refusals
  BY DEF Refusals, HTTP_BAD_REQUEST, HTTP_FORBIDDEN, HTTP_NOT_FOUND, HTTP_REQUEST_RANGE_NOT_SATISFIABLE,
         HTTP_INTERNAL_SERVER_ERROR, OK
<1>2. CASE UsingAlias(c)
  <2>1. found = [code |-> OK, file |-> NULL, length |-> DocLength]
    BY <1>2 DEF Resolved
  <2> QED BY <1>2, <2>1, ContentAssumption
<1>3. CASE ~UsingAlias(c) /\ req(c).method = "POST"
  <2>1. \/ found = [code |-> OK, file |-> job[c].file, length |-> 0]
        \/ found = [code |-> HTTP_INTERNAL_SERVER_ERROR]
    BY <1>3 DEF Resolved
  <2>2. CASE found = [code |-> OK, file |-> job[c].file, length |-> 0]
    BY <1>3, <2>2
  <2>3. CASE found = [code |-> HTTP_INTERNAL_SERVER_ERROR]
    BY <1>1, <2>3
  <2> QED BY <2>1, <2>2, <2>3
<1>4. CASE ~UsingAlias(c) /\ req(c).method # "POST"
  <2>1. \/ found = Lookup(job[c].virtual, job[c].file)
        \/ found = [code |-> HTTP_INTERNAL_SERVER_ERROR]
    BY <1>4 DEF Resolved
  <2>2. CASE found = Lookup(job[c].virtual, job[c].file)
    <3> DEFINE virtual == job[c].virtual  path == job[c].file
    <3>1. virtual \in BOOLEAN /\ found = Lookup(virtual, path)
      BY <2>2
    <3> HIDE DEF virtual, path
    <3>2. /\ found.code \in {OK} \cup Refusals
          /\ found.code = OK =>
               /\ found.length \in Nat /\ found.file \in {path, Append(path, "index.html")}
               /\ IF virtual THEN /\ dlna_http_get_info(Virtual, found.file) # NULL
                                  /\ dlna_http_get_info(Virtual, found.file).is_readable
                                  /\ found.length = dlna_http_get_info(Virtual, found.file).file_length
                  ELSE found.file \in DOMAIN files /\ found.length = files[found.file].length
      BY <3>1, LookupFinds, SMTT(30)
    <3> QED BY <1>4, <3>2 DEF virtual, path
  <2>3. CASE found = [code |-> HTTP_INTERNAL_SERVER_ERROR]
    BY <1>1, <2>3
  <2> QED BY <2>1, <2>2, <2>3
<1> QED BY <1>2, <1>3, <1>4

LEMMA InstructionCodes ==
  ASSUME NEW r, NEW n, NEW i, i = CheckOtherHTTPHeaders(r, n)
  PROVE  i.code \in {OK} \cup Refusals
<1>1. \A o, s : Instruction(o, s).code = OK
  BY DEF Instruction
<1>2. i.code \in {OK, HTTP_BAD_REQUEST, HTTP_REQUEST_RANGE_NOT_SATISFIABLE}
  <2>1. CASE r.range = NULL
    BY <2>1 DEF CheckOtherHTTPHeaders
  <2>2. CASE r.range # NULL
    <3>1. i.code = CreateHTTPRangeResponseHeader(r.range, n).code
      BY <2>2 DEF CheckOtherHTTPHeaders
    <3> QED BY <1>1, <3>1 DEF CreateHTTPRangeResponseHeader
  <2> QED BY <2>1, <2>2
<1> QED BY <1>2 DEF Refusals

\* The head of an answer that is sent.
LEMMA HeadSent ==
  ASSUME NEW i, i.size \in Nat, i.active \in BOOLEAN, i.chunked \in BOOLEAN
  PROVE  AnswerHead(i) # NULL
<1>1. OK \in Nat /\ HTTP_PARTIAL_CONTENT \in Nat
  BY DEF OK, HTTP_PARTIAL_CONTENT
<1>2. AnswerHead(i) \in [status : Nat, clen : Nat \cup {NULL}, chunked : BOOLEAN]
  BY <1>1 DEF AnswerHead
<1> QED BY <1>2, NullAssumption

LEMMA ProcessKeeps == ASSUME DownloadInv, NEW c \in Conns, process_request(c) PROVE DownloadInv'
<1>1. job[c].pc = "resolve" /\ UNCHANGED <<client, up, files>>
  BY DEF process_request
<1>2. /\ JobFields \subseteq DOMAIN job[c] /\ {"head", "body", "end"} \subseteq DOMAIN down[c]
      /\ Server(job[c], client[c], down[c], closed[c], PostedFiles) /\ Poster(job[c], client[c])
      /\ DOMAIN job = Conns /\ DOMAIN down = Conns /\ DOMAIN closed = Conns
      /\ req(c) \in Requests /\ req(c) # NULL
  BY <1>1, JobFacts
<1> DEFINE found == Resolved(c)
           instr == IF found.code = OK THEN CheckOtherHTTPHeaders(req(c), found.length) ELSE found
           j == [job[c] EXCEPT !.file = found.file, !.instr = instr, !.left = instr.size]
           head == IF req(c).method = "SIMPLEGET" THEN NULL ELSE AnswerHead(instr)
           next == [j EXCEPT !.pc = IF UsingAlias(c) THEN "document" ELSE "open"]
           post == [j EXCEPT !.pc = "post"]
<1>3. \/ instr.code # OK /\ http_SendStatusResponse(c, instr.code)
      \/ instr.code = OK /\ req(c).method = "POST" /\ Now(c, post) /\ UNCHANGED <<down, closed>>
      \/ /\ instr.code = OK /\ req(c).method # "POST" /\ Answers(c, head, <<>>)
         /\ \/ /\ Closes(c, j)
               /\ req(c).method = "HEAD" \/ "client" \in closed[c]
            \/ Now(c, next) /\ UNCHANGED closed
  <2> DEFINE k(f, i) == [job[c] EXCEPT !.file = f.file, !.instr = i, !.left = i.size]
             h(i) == IF req(c).method = "SIMPLEGET" THEN NULL ELSE AnswerHead(i)
             p(f, i) == [k(f, i) EXCEPT !.pc = "post"]
             g(f, i) == [k(f, i) EXCEPT !.pc = IF UsingAlias(c) THEN "document" ELSE "open"]
  <2>1. \E f \in {found} : \E i \in {IF f.code = OK THEN CheckOtherHTTPHeaders(req(c), f.length) ELSE f} :
          IF i.code # OK THEN http_SendStatusResponse(c, i.code) /\ ReleaseCopy(job[c].alias)
          ELSE /\ UNCHANGED <<state, aliasVars>>
               /\ IF req(c).method = "POST" THEN Now(c, p(f, i)) /\ UNCHANGED <<down, closed>>
                  ELSE /\ Answers(c, h(i), <<>>)
                       /\ \E fails \in MayFail(c) :
                            IF req(c).method = "HEAD" \/ (fails /\ ~UsingAlias(c)) THEN Closes(c, k(f, i))
                            ELSE Now(c, g(f, i)) /\ UNCHANGED closed
    BY Zenon DEF process_request
  <2>2. j = k(found, instr) /\ head = h(instr) /\ post = p(found, instr) /\ next = g(found, instr)
    OBVIOUS
  <2> HIDE DEF k, h, p, g
  <2>3. IF instr.code # OK THEN http_SendStatusResponse(c, instr.code) /\ ReleaseCopy(job[c].alias)
        ELSE /\ UNCHANGED <<state, aliasVars>>
             /\ IF req(c).method = "POST" THEN Now(c, p(found, instr)) /\ UNCHANGED <<down, closed>>
                ELSE /\ Answers(c, h(instr), <<>>)
                     /\ \E fails \in MayFail(c) :
                          IF req(c).method = "HEAD" \/ (fails /\ ~UsingAlias(c)) THEN Closes(c, k(found, instr))
                          ELSE Now(c, g(found, instr)) /\ UNCHANGED closed
    BY <2>1, Zenon
  <2>4. \A fails \in MayFail(c) : fails => "client" \in closed[c]
    BY DEF MayFail
  <2> HIDE DEF found, instr, j, head, post, next
  <2> QED BY <2>2, <2>3, <2>4
<1>4. found.code \in {OK} \cup Refusals
  BY <1>1, <1>2, ResolvedFinds DEF Poster
<1>5. instr.code \in {OK} \cup Refusals
  BY <1>4, InstructionCodes
<1>6. found.code # OK => instr = found
  OBVIOUS
<1>7. found.code = OK => instr = CheckOtherHTTPHeaders(req(c), found.length)
  OBVIOUS
<1>8. OK \notin Refusals
  BY DEF Refusals, HTTP_BAD_REQUEST, HTTP_FORBIDDEN, HTTP_NOT_FOUND, HTTP_REQUEST_RANGE_NOT_SATISFIABLE,
         HTTP_INTERNAL_SERVER_ERROR, OK
<1>9. /\ JobFields \subseteq DOMAIN j /\ j.file = found.file /\ j.instr = instr /\ j.left = instr.size
      /\ j.virtual = job[c].virtual /\ j.have = job[c].have /\ j.pc = "resolve"
  BY <1>1, <1>2 DEF JobFields
<1>10. CASE instr.code # OK /\ http_SendStatusResponse(c, instr.code)
  <2>1. instr.code \in Refusals /\ job[c].pc \in Before /\ job[c].pc # "none"
    BY <1>1, <1>5, <1>10 DEF Before
  <2> HIDE DEF instr
  <2> QED BY <1>1, <1>10, <2>1, RequestRefused
<1>11. CASE instr.code = OK /\ req(c).method = "POST" /\ Now(c, post) /\ UNCHANGED <<down, closed>>
  <2>1. found.code = OK
    BY <1>4, <1>6, <1>8, <1>11
  <2>2. found.file \in {NULL, job[c].file}
    BY <1>1, <1>2, <1>11, <2>1, ResolvedFinds DEF Poster
  <2> HIDE DEF found, instr, j
  <2>3. JobFields \subseteq DOMAIN post /\ post.pc = "post" /\ post.file = found.file /\ post.have = job[c].have
        /\ post.virtual = job[c].virtual
    BY <1>9 DEF JobFields
  <2> HIDE DEF post
  <2>4. DOMAIN job' = Conns /\ job'[c] = post /\ \A b \in Conns : b # c => job'[b] = job[b]
    BY <1>11, JobGoes
  <2>5. ~Asked(client[c]) /\ client[c].req.method = "POST"
    BY <1>11 DEF Asked, req
  <2>6. Poster(post, client[c])
    BY <1>1, <1>2, <2>2, <2>3, <2>5 DEF Poster
  <2>7. Server(post, client[c], down[c], closed[c], PostedFiles)
    BY <1>1, <1>2, <2>3, <2>5 DEF Server
  <2> QED BY <1>1, <1>2, <1>11, <2>3, <2>4, <2>5, <2>6, <2>7, JobStep
<1>12. CASE /\ instr.code = OK /\ req(c).method # "POST" /\ Answers(c, head, <<>>)
            /\ \/ Closes(c, j) /\ (req(c).method = "HEAD" \/ "client" \in closed[c])
               \/ Now(c, next) /\ UNCHANGED closed
  <2>1. found.code = OK
    BY <1>4, <1>6, <1>8, <1>12
  <2>2. /\ found.length \in Nat
        /\ UsingAlias(c) => found.file = NULL /\ found.length = DocLength
        /\ ~UsingAlias(c) =>
             /\ found.file \in {job[c].file, Append(job[c].file, "index.html")}
             /\ IF job[c].virtual THEN /\ dlna_http_get_info(Virtual, found.file) # NULL
                                       /\ dlna_http_get_info(Virtual, found.file).is_readable
                                       /\ found.length = dlna_http_get_info(Virtual, found.file).file_length
                ELSE found.file \in DOMAIN files /\ found.length = files[found.file].length
    BY <1>1, <1>2, <1>12, <2>1, ResolvedFinds DEF Poster
  <2>3. Grants(instr, req(c).range, found.length)
    BY <1>2, <1>7, <1>12, <2>1, <2>2, RequestGranted
  <2> HIDE DEF found, instr, j
  <2>4. /\ JobFields \subseteq DOMAIN next /\ next.pc = (IF UsingAlias(c) THEN "document" ELSE "open")
        /\ next.file = found.file /\ next.instr = instr /\ next.left = instr.size
        /\ next.have = job[c].have /\ next.virtual = job[c].virtual
    BY <1>9 DEF JobFields
  <2> HIDE DEF next, head
  <2>5. /\ DOMAIN down' = Conns /\ \A b \in Conns : b # c => down'[b] = down[b]
        /\ {"head", "body", "end"} \subseteq DOMAIN down'[c] /\ down'[c].head = head
        /\ down'[c].body = down[c].body \o <<>> /\ down'[c].end = down[c].end
    BY <1>12, AnswerGoesOn
  <2> DEFINE k == job'[c]
  <2>6. /\ DOMAIN job' = Conns /\ DOMAIN closed' = Conns
        /\ \A b \in Conns : b # c => job'[b] = job[b] /\ closed'[b] = closed[b]
        /\ JobFields \subseteq DOMAIN k /\ k.file = found.file /\ k.instr = instr
        /\ k.have = job[c].have /\ k.virtual = job[c].virtual
        /\ \/ k.pc = "done" /\ closed'[c] = closed[c] \cup {"server"} /\ (req(c).method = "HEAD" \/ "client" \in closed[c])
           \/ k.pc = (IF UsingAlias(c) THEN "document" ELSE "open") /\ k.left = instr.size /\ closed'[c] = closed[c]
    <3>1. CASE Closes(c, j) /\ (req(c).method = "HEAD" \/ "client" \in closed[c])
      BY <1>9, <3>1, JobCloses
    <3>2. CASE Now(c, next) /\ UNCHANGED closed
      <4>1. DOMAIN job' = Conns /\ job'[c] = next /\ \A b \in Conns : b # c => job'[b] = job[b]
        BY <3>2, JobGoes
      <4> QED BY <1>2, <2>4, <3>2, <4>1
    <3> QED BY <1>12, <3>1, <3>2
  <2> HIDE DEF k
  <2>7. k.pc \in {"document", "open", "done"}
    BY <2>6
  <2>8. Poster(k, client[c])
    BY <1>2, <2>6, <2>7 DEF Poster
  <2>9. ASSUME Asked(client[c])
        PROVE  /\ down[c].head = NULL /\ down'[c].head = AnswerHead(instr) /\ down'[c].head # NULL
               /\ down'[c].body = <<>> /\ ~down'[c].end /\ job[c].file \in Seq(STRING)
    <3>1. down[c].head = NULL /\ down[c].body = <<>> /\ ~down[c].end /\ job[c].file \in Seq(STRING)
      BY <1>1, <1>2, <2>9 DEF Server, Before
    <3>2. head = AnswerHead(instr)
      BY <2>9 DEF Asked, req, head
    <3>3. head # NULL
      BY <2>3, <3>2, HeadSent DEF Grants
    <3>4. down[c].body \o <<>> = <<>>
      BY <3>1
    <3> QED BY <2>5, <3>1, <3>2, <3>3, <3>4
  <2>10. ASSUME Asked(client[c]), Judged(k, client[c], PostedFiles)
         PROVE  Answering(k, client[c], down'[c], closed'[c])
    <3>1. ~UsingAlias(c) => k.file \in Seq(STRING) /\ k.file # NULL
      <4>1. Append(job[c].file, "index.html") \in Seq(STRING)
        BY <2>9, <2>10, ContentAssumption
      <4> QED BY <2>2, <2>6, <2>9, <2>10, <4>1, NullAssumption
    <3>2. ~UsingAlias(c) /\ ~k.virtual => k.file \in DOMAIN InitialFiles /\ InitialFiles[k.file] = files[k.file]
      BY <2>2, <2>6, <2>10, <3>1 DEF Judged, DownloadInv, FilesKept
    <3>3. Length(k) = found.length
      BY <1>2, <2>2, <2>6, <3>1, <3>2 DEF Length
    <3>4. Len(<<>>) = 0 /\ Run(instr.offset, 0) = <<>>
      BY <2>3, Runs DEF Grants
    <3>5. ~UsingAlias(c) => Readable(k)
      BY <1>2, <2>2, <2>6, <3>2 DEF Readable, Poster
    <3>6. k.pc = "done" => "client" \in closed'[c]
      BY <2>6, <2>10 DEF Asked, req
    <3>7. instr.size \in Nat
      BY <2>3 DEF Grants
    <3> QED BY <2>2, <2>3, <2>6, <2>9, <2>10, <3>1, <3>2, <3>3, <3>4, <3>5, <3>6, <3>7 DEF Answering, req
  <2>11. Server(k, client[c], down'[c], closed'[c], PostedFiles)
    <3>1. "server" \in closed'[c] => k.pc = "done"
      BY <1>1, <1>2, <2>6 DEF Server
    <3> QED BY <2>7, <2>9, <2>10, <3>1 DEF Server, Before, After, Delivers
  <2> QED BY <1>1, <2>5, <2>6, <2>8, <2>9, <2>11, JobStep DEF k
<1> QED BY <1>3, <1>10, <1>11, <1>12

\* A job that goes on with its answer: who it is for, and what it is about, stays.
LEMMA AnswerStep ==
  ASSUME DownloadInv, NEW c \in Conns, UNCHANGED <<client, up, files>>, job[c].pc \in After,
         DOMAIN job' = Conns, DOMAIN down' = Conns, DOMAIN closed' = Conns,
         \A b \in Conns : b # c => job'[b] = job[b] /\ down'[b] = down[b] /\ closed'[b] = closed[b],
         JobFields \subseteq DOMAIN job'[c], {"head", "body", "end"} \subseteq DOMAIN down'[c],
         job'[c].pc \in After, job'[c].file = job[c].file, job'[c].virtual = job[c].virtual,
         job'[c].instr = job[c].instr, job'[c].have = job[c].have, down'[c].head = down[c].head,
         \/ closed'[c] = closed[c] /\ job[c].pc # "done"
         \/ closed'[c] = closed[c] \cup {"server"} /\ job'[c].pc = "done",
         Asked(client[c]) /\ Delivers(job[c], client[c], down[c], PostedFiles) =>
           Answering(job'[c], client[c], down'[c], closed'[c])
  PROVE  DownloadInv'
<1>1. /\ Server(job[c], client[c], down[c], closed[c], PostedFiles) /\ Poster(job[c], client[c])
      /\ job[c].pc # "none"
  BY JobFacts DEF After
<1>2. Poster(job'[c], client[c])
  BY <1>1 DEF Poster, After
<1>3. Delivers(job'[c], client[c], down'[c], PostedFiles) => Delivers(job[c], client[c], down[c], PostedFiles)
  BY DEF Delivers, Judged
<1>4. "server" \in closed'[c] => job'[c].pc = "done"
  BY <1>1 DEF Server
<1>5. Server(job'[c], client[c], down'[c], closed'[c], PostedFiles)
  BY <1>1, <1>3, <1>4 DEF Server, Before, After
<1> QED BY <1>1, <1>2, <1>5, JobStep

LEMMA DocumentKeeps == ASSUME DownloadInv, NEW c \in Conns, SendDocument(c) PROVE DownloadInv'
<1> DEFINE body == [i \in 1..DocLength |-> i - 1]
<1>1. /\ job[c].pc = "document" /\ job[c].pc \in After /\ UNCHANGED <<client, up, files>>
      /\ Answers(c, down[c].head, body) /\ Closes(c, job[c])
  BY DEF SendDocument, After
<1>2. JobFields \subseteq DOMAIN job[c] /\ Server(job[c], client[c], down[c], closed[c], PostedFiles)
  BY JobFacts
<1>3. body = Run(0, DocLength)
  BY ContentAssumption DEF Run
<1> HIDE DEF body
<1>4. /\ DOMAIN down' = Conns /\ \A b \in Conns : b # c => down'[b] = down[b]
      /\ {"head", "body", "end"} \subseteq DOMAIN down'[c] /\ down'[c].head = down[c].head
      /\ down'[c].body = down[c].body \o body /\ down'[c].end = down[c].end
  BY <1>1, AnswerGoesOn
<1>5. /\ DOMAIN job' = Conns /\ \A b \in Conns : b # c => job'[b] = job[b]
      /\ DOMAIN closed' = Conns /\ \A b \in Conns : b # c => closed'[b] = closed[b]
      /\ closed'[c] = closed[c] \cup {"server"}
      /\ JobFields \subseteq DOMAIN job'[c] /\ job'[c].pc = "done"
      /\ job'[c].file = job[c].file /\ job'[c].virtual = job[c].virtual /\ job'[c].instr = job[c].instr
      /\ job'[c].have = job[c].have
  BY <1>1, <1>2, JobCloses
<1>6. ASSUME Asked(client[c]), Delivers(job[c], client[c], down[c], PostedFiles)
      PROVE  Answering(job'[c], client[c], down'[c], closed'[c])
  <2> DEFINE i == job[c].instr
  <2>1. Answering(job[c], client[c], down[c], closed[c])
    BY <1>2, <1>6 DEF Server
  <2>2. down[c].body = <<>> /\ job[c].file = NULL /\ client[c].req.range = NULL
    BY <1>1, <1>6, <2>1 DEF Answering, Delivers, Judged
  <2>3. Length(job[c]) = DocLength /\ Length(job'[c]) = DocLength
    BY <1>5, <2>2 DEF Length
  <2>4. i.offset = 0 /\ i.size = DocLength
    BY <2>1, <2>2, <2>3 DEF Answering, Grants
  <2>5. Run(0, DocLength) \in Seq(Int) /\ Len(Run(0, DocLength)) = DocLength
    <3>1. 0 \in Int /\ DocLength \in Nat
      BY ContentAssumption
    <3> QED BY <3>1, Runs, Zenon
  <2>6. <<>> \o Run(0, DocLength) = Run(0, DocLength)
    BY <2>5
  <2>7. down'[c].body = Run(0, DocLength)
    BY <1>3, <1>4, <2>2, <2>6
  <2> QED BY <1>4, <1>5, <2>1, <2>3, <2>4, <2>5, <2>7, ContentAssumption DEF Answering
<1>7. job'[c].pc \in After
  BY <1>5 DEF After
<1> QED BY <1>1, <1>4, <1>5, <1>6, <1>7, AnswerStep

Handles == [type : {"LOCAL", "MEMORY"}, name : Seq(STRING) \cup DOMAIN Virtual.disk \cup {NULL}, pos : Nat, len : Nat]

\* What is opened in the virtual directories has the length that was found.
LEMMA VirtualOpened ==
  ASSUME NEW path, dlna_http_get_info(Virtual, path) # NULL, dlna_http_get_info(Virtual, path).is_readable,
         NEW fp, fp = dlna_http_open(Virtual, path, "READ")
  PROVE  LET length == dlna_http_get_info(Virtual, path).file_length IN
         /\ fp = NULL => length = 0
         /\ fp # NULL => /\ fp \in Handles /\ fp.pos = 0
                         /\ \/ fp.type = "MEMORY" /\ fp.len = length
                            \/ fp.type = "LOCAL" /\ Virtual.disk[fp.name].length = length
<1> DEFINE id == IdOf(Virtual, path)
           item == Virtual.items[id]
           url == ServiceOf(Virtual, path)
           info == dlna_http_get_info(Virtual, path)
<1>1. CASE url # NULL
  <2> DEFINE n == Virtual.services[url]
  <2>1. url \in DOMAIN Virtual.services
    BY <1>1 DEF ServiceOf
  <2>2. info = set_service_http_info(n) /\ fp = http_get_file_from_memory(n)
    BY <1>1 DEF dlna_http_get_info, dlna_http_open
  <2>3. n \in Nat
    BY <2>1, ContentAssumption
  <2> HIDE DEF url, n
  <2>4. info.file_length = n
    BY <2>2 DEF set_service_http_info
  <2>5. CASE n = 0
    BY <2>2, <2>4, <2>5 DEF http_get_file_from_memory
  <2>6. CASE n # 0
    <3>1. fp = [type |-> "MEMORY", name |-> NULL, pos |-> 0, len |-> n]
      BY <2>2, <2>6 DEF http_get_file_from_memory
    <3>2. fp \in Handles
      BY <2>3, <3>1 DEF Handles
    <3>3. fp # NULL
      BY <3>2, NullAssumption DEF Handles
    <3> QED BY <2>4, <3>1, <3>2, <3>3
  <2> QED BY <2>5, <2>6
<1>2. CASE url = NULL
  <2> DEFINE name == item.filename
  <2>1. /\ id \in DOMAIN Virtual.items /\ name \in DOMAIN Virtual.disk
        /\ info.file_length = Virtual.disk[name].length /\ info.is_readable = Virtual.disk[name].readable
    BY <1>2 DEF dlna_http_get_info
  <2>2. fp = http_get_file_local(Virtual, name)
    BY <1>2, <2>1 DEF dlna_http_open
  <2> HIDE DEF name
  <2>3. fp = [type |-> "LOCAL", name |-> name, pos |-> 0, len |-> 0]
    BY <2>1, <2>2 DEF http_get_file_local
  <2>4. fp \in Handles
    BY <2>1, <2>3 DEF Handles
  <2>5. fp # NULL
    BY <2>4, NullAssumption DEF Handles
  <2> QED BY <2>1, <2>3, <2>4, <2>5
<1> QED BY <1>1, <1>2

LEMMA OpenKeeps == ASSUME DownloadInv, NEW c \in Conns, OpenFile(c) PROVE DownloadInv'
<1> DEFINE j == job[c]
           fp == IF j.virtual THEN dlna_http_open(Virtual, j.file, "READ")
                 ELSE [type |-> "LOCAL", name |-> j.file, pos |-> 0, len |-> 0]
           at == IF fp = NULL \/ ~j.instr.active THEN fp ELSE dlna_http_seek(fs(c), fp, j.instr.offset, "CUR")
           next == [j EXCEPT !.fp = at, !.pc = "send"]
<1>1. /\ job[c].pc = "open" /\ job[c].pc \in After /\ UNCHANGED <<client, up, files, down>>
      /\ \/ at = NULL /\ Closes(c, job[c])
         \/ at # NULL /\ Now(c, next) /\ UNCHANGED closed
  BY DEF OpenFile, After
<1>2. /\ JobFields \subseteq DOMAIN job[c] /\ {"head", "body", "end"} \subseteq DOMAIN down[c]
      /\ Server(job[c], client[c], down[c], closed[c], PostedFiles) /\ Poster(job[c], client[c])
      /\ DOMAIN down = Conns /\ DOMAIN closed = Conns
  BY JobFacts
<1>3. /\ JobFields \subseteq DOMAIN next /\ next.pc = "send" /\ next.file = j.file /\ next.virtual = j.virtual
      /\ next.instr = j.instr /\ next.have = j.have /\ next.left = j.left /\ next.fp = at
  BY <1>2 DEF JobFields
<1>4. ASSUME Asked(client[c]), Delivers(job[c], client[c], down[c], PostedFiles)
      PROVE  /\ Answering(job[c], client[c], down[c], closed[c]) /\ j.file # NULL
             /\ at = NULL => j.instr.size = 0
             /\ at # NULL => HandleOK(next) /\ at.pos = j.instr.offset
  <2> DEFINE o == j.instr.offset
  <2>1. Answering(job[c], client[c], down[c], closed[c])
    BY <1>2, <1>4 DEF Server
  <2>2. /\ o \in Nat /\ j.instr.size \in Nat /\ o + j.instr.size <= Length(j) /\ (j.instr.active \/ o = 0)
        /\ j.file \in Seq(STRING) /\ j.file # NULL /\ Readable(j) /\ j.virtual \in BOOLEAN
    BY <1>1, <1>2, <2>1, NullAssumption DEF Answering, Grants, Poster
  <2>3. /\ fp = NULL => Length(j) = 0
        /\ fp # NULL => /\ fp \in Handles /\ fp.pos = 0
                        /\ \/ fp.type = "MEMORY" /\ fp.len = Length(j)
                           \/ fp.type = "LOCAL" /\ j.virtual /\ Virtual.disk[fp.name].length = Length(j)
                           \/ fp.type = "LOCAL" /\ ~j.virtual /\ fp.name = j.file
    <3>1. CASE j.virtual
      <4>1. Length(j) = dlna_http_get_info(Virtual, j.file).file_length
        BY <2>2, <3>1 DEF Length
      <4>2. dlna_http_get_info(Virtual, j.file) # NULL /\ dlna_http_get_info(Virtual, j.file).is_readable
        BY <2>2, <3>1 DEF Readable
      <4>3. fp = dlna_http_open(Virtual, j.file, "READ")
        BY <3>1
      <4> HIDE DEF fp
      <4> QED BY <3>1, <4>1, <4>2, <4>3, VirtualOpened
    <3>2. CASE ~j.virtual
      <4>1. fp = [type |-> "LOCAL", name |-> j.file, pos |-> 0, len |-> 0]
        BY <3>2
      <4>2. fp \in Handles
        BY <2>2, <4>1 DEF Handles
      <4>3. fp # NULL
        BY <4>2, NullAssumption DEF Handles
      <4> HIDE DEF fp
      <4> QED BY <3>2, <4>1, <4>2, <4>3
    <3> QED BY <2>2, <3>1, <3>2
  <2> HIDE DEF fp
  <2>4. CASE fp = NULL
    <3>1. j.instr.size = 0
      BY <2>2, <2>3, <2>4
    <3> QED BY <2>1, <2>2, <2>4, <3>1
  <2>5. CASE fp # NULL
    <3>1. at = [fp EXCEPT !.pos = o]
      <4>1. CASE ~j.instr.active
        <5>1. fp = [fp EXCEPT !.pos = 0]
          BY <2>3, <2>5 DEF Handles
        <5> QED BY <2>2, <2>5, <4>1, <5>1
      <4>2. CASE j.instr.active
        <5>1. o + fp.pos = o /\ ~(o < 0) /\ ~(fp.type = "MEMORY" /\ o > fp.len)
          <6>1. fp.pos = 0 /\ fp.len \in Nat
            BY <2>3, <2>5 DEF Handles
          <6>2. fp.type = "MEMORY" => fp.len = Length(j)
            BY <2>3, <2>5
          <6> QED BY <2>2, <6>1, <6>2
        <5>2. dlna_http_seek(fs(c), fp, o, "CUR") = [fp EXCEPT !.pos = o]
          BY <5>1 DEF dlna_http_seek
        <5> QED BY <2>5, <4>2, <5>2
      <4> QED BY <4>1, <4>2
    <3>2. at \in Handles /\ at.pos = o /\ at.type = fp.type /\ at.name = fp.name /\ at.len = fp.len
      BY <2>2, <2>3, <2>5, <3>1 DEF Handles
    <3>3. at # NULL
      BY <3>2, NullAssumption DEF Handles
    <3> HIDE DEF at, next
    <3>4. {"type", "name", "pos", "len"} \subseteq DOMAIN at
      BY <3>2 DEF Handles
    <3>5. Length(next) = Length(j)
      BY <1>3 DEF Length
    <3>6. ~j.virtual => j.file \in DOMAIN InitialFiles
      BY <2>2 DEF Readable
    <3>7. HandleOK(next)
      BY <1>3, <2>2, <2>3, <2>5, <3>2, <3>4, <3>5, <3>6 DEF HandleOK
    <3> QED BY <2>1, <2>2, <3>2, <3>3, <3>7
  <2> QED BY <2>4, <2>5
<1> HIDE DEF at, next
<1>5. CASE at = NULL /\ Closes(c, job[c])
  <2>1. /\ DOMAIN job' = Conns /\ \A b \in Conns : b # c => job'[b] = job[b]
        /\ DOMAIN closed' = Conns /\ \A b \in Conns : b # c => closed'[b] = closed[b]
        /\ closed'[c] = closed[c] \cup {"server"}
        /\ JobFields \subseteq DOMAIN job'[c] /\ job'[c].pc = "done" /\ job'[c].pc \in After
        /\ job'[c].file = job[c].file /\ job'[c].virtual = job[c].virtual /\ job'[c].instr = job[c].instr
        /\ job'[c].have = job[c].have
    BY <1>2, <1>5, JobCloses DEF After
  <2>2. ASSUME Asked(client[c]), Delivers(job[c], client[c], down[c], PostedFiles)
        PROVE  Answering(job'[c], client[c], down[c], closed'[c])
    <3>1. Length(job'[c]) = Length(job[c])
      BY <2>1 DEF Length
    <3>2. down[c].body = <<>> /\ job[c].instr.size = 0
      BY <1>1, <1>4, <1>5, <2>2 DEF Answering
    <3> QED BY <1>4, <2>1, <2>2, <3>1, <3>2 DEF Answering
  <2> QED BY <1>1, <1>2, <2>1, <2>2, AnswerStep
<1>6. CASE at # NULL /\ Now(c, next) /\ UNCHANGED closed
  <2>1. DOMAIN job' = Conns /\ job'[c] = next /\ \A b \in Conns : b # c => job'[b] = job[b]
    BY <1>6, JobGoes
  <2>2. ASSUME Asked(client[c]), Delivers(job[c], client[c], down[c], PostedFiles)
        PROVE  Answering(next, client[c], down[c], closed[c])
    <3>1. Length(next) = Length(job[c])
      BY <1>3 DEF Length
    <3>2. /\ down[c].body = <<>> /\ Len(<<>>) = 0 /\ job[c].left = job[c].instr.size /\ job[c].instr.size \in Nat
          /\ job[c].instr.offset \in Nat
      BY <1>1, <1>4, <2>2 DEF Answering, Grants
    <3> QED BY <1>3, <1>4, <1>6, <2>2, <3>1, <3>2 DEF Answering
  <2>3. next.pc \in After /\ job[c].pc # "done"
    BY <1>1, <1>3 DEF After
  <2> QED BY <1>1, <1>2, <1>3, <1>6, <2>1, <2>2, <2>3, AnswerStep
<1> QED BY <1>1, <1>5, <1>6

\* A read while there is something left returns some of it.
LEMMA PieceSize ==
  ASSUME NEW left \in Int, NEW size \in Int, NEW buf \in Int, NEW room \in Int,
         left > 0, left <= size, buf > 0, left <= room
  PROVE  Max({0, Min({Min({left, size, buf}), room})}) \in 1..left
<1> DEFINE m == Min({left, size, buf})
           n == Min({m, room})
<1>1. m \in {left, size, buf} /\ m <= left
  BY MinOfThree
<1>2. m \in Int /\ m > 0 /\ m <= left
  BY <1>1
<1> HIDE DEF m
<1>3. n = IF m <= room THEN m ELSE room
  BY <1>2, MinMax, Zenon
<1>4. n \in Int /\ n > 0 /\ n <= left /\ 0 \in Int
  BY <1>2, <1>3
<1> HIDE DEF n
<1>5. Max({0, n}) = IF 0 <= n THEN n ELSE 0
  BY <1>4, MinMax, Zenon
<1> QED BY <1>4, <1>5 DEF n, m

LEMMA PieceKeeps == ASSUME DownloadInv, NEW c \in Conns, SendPiece(c) PROVE DownloadInv'
<1> DEFINE j == job[c]
           n == dlna_http_read(fs(c), j.fp, Min({j.left, j.instr.size, WEB_SERVER_BUF_SIZE}))
           piece == [i \in 1..n |-> j.fp.pos + i - 1]
           over == [j EXCEPT !.fp = NULL]
           next == [j EXCEPT !.fp = Advanced(@, n), !.left = @ - n]
<1>1. /\ job[c].pc = "send" /\ job[c].pc \in After /\ job[c].pc # "done" /\ UNCHANGED <<client, up, files>>
      /\ \/ j.left = 0 /\ Closes(c, over) /\ UNCHANGED down
         \/ j.left # 0 /\ n = 0 /\ Closes(c, over) /\ down' = [down EXCEPT ![c].end = j.instr.chunked]
         \/ /\ j.left # 0 /\ n # 0 /\ down' = [down EXCEPT ![c].body = @ \o piece]
            /\ \/ "client" \in closed[c] /\ Closes(c, over)
               \/ Now(c, next) /\ UNCHANGED closed
  BY DEF SendPiece, After, MayFail
<1>2. /\ JobFields \subseteq DOMAIN job[c] /\ {"head", "body", "end"} \subseteq DOMAIN down[c]
      /\ Server(job[c], client[c], down[c], closed[c], PostedFiles) /\ Poster(job[c], client[c])
      /\ DOMAIN down = Conns /\ DOMAIN closed = Conns
  BY JobFacts
<1>3. /\ JobFields \subseteq DOMAIN over /\ over.file = j.file /\ over.virtual = j.virtual
      /\ over.instr = j.instr /\ over.have = j.have
      /\ JobFields \subseteq DOMAIN next /\ next.pc = "send" /\ next.file = j.file /\ next.virtual = j.virtual
      /\ next.instr = j.instr /\ next.have = j.have /\ next.left = j.left - n /\ next.fp = Advanced(j.fp, n)
  BY <1>1, <1>2 DEF JobFields
<1> HIDE DEF over
<1>4. ASSUME Asked(client[c]), Delivers(job[c], client[c], down[c], PostedFiles)
      PROVE  /\ Answering(job[c], client[c], down[c], closed[c]) /\ HandleOK(j)
             /\ j.left \in 0..j.instr.size /\ j.instr.offset \in Nat /\ j.instr.size \in Nat
             /\ j.fp.pos = j.instr.offset + j.instr.size - j.left /\ Len(down[c].body) = j.instr.size - j.left
             /\ j.left # 0 => n \in 1..j.left
  <2>1. Answering(job[c], client[c], down[c], closed[c])
    BY <1>2, <1>4 DEF Server
  <2>2. /\ j.left \in 0..j.instr.size /\ j.instr.offset \in Nat /\ j.instr.size \in Nat
        /\ j.instr.offset + j.instr.size <= Length(j) /\ Length(j) \in Nat
        /\ j.fp.pos = j.instr.offset + j.instr.size - j.left /\ Len(down[c].body) = j.instr.size - j.left /\ HandleOK(j)
    BY <1>1, <2>1 DEF Answering, Grants
  <2> DEFINE length == IF j.fp.type = "LOCAL" THEN fs(c).disk[j.fp.name].length ELSE j.fp.len
  <2>3. length = Length(j)
    <3>1. CASE j.fp.type = "MEMORY" /\ j.fp.len = Length(j)
      BY <3>1
    <3>2. CASE j.fp.type = "LOCAL" /\ j.virtual /\ Virtual.disk[j.fp.name].length = Length(j)
      BY <3>2 DEF fs
    <3>3. CASE j.fp.type = "LOCAL" /\ ~j.virtual /\ j.fp.name = j.file /\ j.file \in DOMAIN InitialFiles /\ j.file # NULL
      <4>1. files[j.file] = InitialFiles[j.file]
        BY <1>4, <3>3 DEF DownloadInv, FilesKept, Delivers, Judged
      <4>2. Length(j) = InitialFiles[j.file].length
        BY <3>3 DEF Length
      <4> QED BY <3>3, <4>1, <4>2 DEF fs
    <3> QED BY <2>2, <3>1, <3>2, <3>3 DEF HandleOK
  <2>4. j.left # 0 => n \in 1..j.left
    <3>1. n = Max({0, Min({Min({j.left, j.instr.size, WEB_SERVER_BUF_SIZE}), length - j.fp.pos})})
      BY DEF dlna_http_read
    <3> DEFINE left == j.left  size == j.instr.size  room == length - j.fp.pos
    <3>2. /\ left \in Int /\ size \in Int /\ room \in Int /\ WEB_SERVER_BUF_SIZE \in Int
          /\ left <= size /\ WEB_SERVER_BUF_SIZE > 0 /\ left <= room
      <4> DEFINE all == Length(j)  offset == j.instr.offset
      <4>1. /\ left \in 0..size /\ offset \in Nat /\ size \in Nat /\ offset + size <= all /\ all \in Nat
            /\ room = all - (offset + size - left)
        BY <2>2, <2>3
      <4> HIDE DEF left, size, room, all, offset
      <4> QED BY <4>1, ContentAssumption
    <3> HIDE DEF left, size, room
    <3>3. left > 0 => Max({0, Min({Min({left, size, WEB_SERVER_BUF_SIZE}), room})}) \in 1..left
      BY <3>2, PieceSize
    <3>4. left # 0 => left > 0
      BY <2>2 DEF left
    <3> QED BY <3>1, <3>3, <3>4 DEF left, size, room
  <2> QED BY <2>1, <2>2, <2>4
<1> HIDE DEF n
<1>5. ASSUME Asked(client[c]), Delivers(job[c], client[c], down[c], PostedFiles), j.left # 0
      PROVE  LET body == down[c].body \o piece IN
             /\ Len(body) = j.instr.size - (j.left - n) /\ body = Run(j.instr.offset, Len(body))
             /\ j.left - n \in 0..j.instr.size
  <2> DEFINE o == j.instr.offset  k == j.instr.size - j.left
  <2>1. o \in Nat /\ k \in Nat /\ n \in 1..j.left /\ j.left \in Nat /\ j.left <= j.instr.size /\ j.instr.size \in Nat
    BY <1>4, <1>5
  <2>2. down[c].body = Run(o, k)
    BY <1>4, <1>5 DEF Answering
  <2>3. piece = Run(o + k, n)
    <3>1. o + k = j.fp.pos
      BY <1>4, <1>5
    <3> QED BY <3>1 DEF Run
  <2>4. k + n = j.instr.size - (j.left - n) /\ k + n \in Nat /\ n \in Nat /\ j.left - n \in 0..j.instr.size
    BY <2>1
  <2> HIDE DEF o, k, piece
  <2>5. down[c].body \o piece = Run(o, k + n)
    <3>1. o \in Int /\ k \in Nat /\ n \in Nat
      BY <2>1, <2>4
    <3>2. Run(o, k) \o Run(o + k, n) = Run(o, k + n)
      BY <3>1, RunGoesOn, Zenon
    <3> QED BY <2>2, <2>3, <3>2, Zenon
  <2>6. Len(Run(o, k + n)) = k + n
    BY <2>1, <2>4, Runs
  <2> QED BY <2>4, <2>5, <2>6 DEF o
<1> HIDE DEF piece, next
<1>6. ASSUME Closes(c, over)
      PROVE  /\ DOMAIN job' = Conns /\ \A b \in Conns : b # c => job'[b] = job[b]
             /\ DOMAIN closed' = Conns /\ \A b \in Conns : b # c => closed'[b] = closed[b]
             /\ closed'[c] = closed[c] \cup {"server"}
             /\ JobFields \subseteq DOMAIN job'[c] /\ job'[c].pc = "done" /\ job'[c].pc \in After
             /\ job'[c].file = j.file /\ job'[c].virtual = j.virtual /\ job'[c].instr = j.instr
             /\ job'[c].have = j.have /\ Length(job'[c]) = Length(j)
  <2>1. /\ DOMAIN job' = Conns /\ \A b \in Conns : b # c => job'[b] = job[b]
        /\ DOMAIN closed' = Conns /\ \A b \in Conns : b # c => closed'[b] = closed[b]
        /\ closed'[c] = closed[c] \cup {"server"}
        /\ JobFields \subseteq DOMAIN job'[c] /\ job'[c].pc = "done"
        /\ job'[c].file = over.file /\ job'[c].virtual = over.virtual /\ job'[c].instr = over.instr
        /\ job'[c].have = over.have
    BY <1>3, <1>6, JobCloses
  <2> QED BY <1>3, <2>1 DEF After, Length
<1>7. CASE j.left = 0 /\ Closes(c, over) /\ UNCHANGED down
  <2>1. ASSUME Asked(client[c]), Delivers(job[c], client[c], down[c], PostedFiles)
        PROVE  Answering(job'[c], client[c], down'[c], closed'[c])
    BY <1>4, <1>6, <1>7, <2>1 DEF Answering
  <2> QED BY <1>1, <1>2, <1>6, <1>7, <2>1, AnswerStep
<1>8. CASE j.left # 0 /\ n = 0 /\ Closes(c, over) /\ down' = [down EXCEPT ![c].end = j.instr.chunked]
  <2>1. /\ DOMAIN down' = Conns /\ \A b \in Conns : b # c => down'[b] = down[b]
        /\ {"head", "body", "end"} \subseteq DOMAIN down'[c] /\ down'[c].head = down[c].head
    BY <1>2, <1>8
  <2>2. ~(Asked(client[c]) /\ Delivers(job[c], client[c], down[c], PostedFiles))
    BY <1>4, <1>8
  <2> QED BY <1>1, <1>6, <1>8, <2>1, <2>2, AnswerStep
<1>9. CASE /\ j.left # 0 /\ n # 0 /\ down' = [down EXCEPT ![c].body = @ \o piece]
           /\ \/ "client" \in closed[c] /\ Closes(c, over)
              \/ Now(c, next) /\ UNCHANGED closed
  <2>1. /\ DOMAIN down' = Conns /\ \A b \in Conns : b # c => down'[b] = down[b]
        /\ {"head", "body", "end"} \subseteq DOMAIN down'[c] /\ down'[c].head = down[c].head
        /\ down'[c].body = down[c].body \o piece /\ down'[c].end = down[c].end
    BY <1>2, <1>9
  <2>2. CASE "client" \in closed[c] /\ Closes(c, over)
    <3>1. ASSUME Asked(client[c]), Delivers(job[c], client[c], down[c], PostedFiles)
          PROVE  Answering(job'[c], client[c], down'[c], closed'[c])
      <4>1. /\ Len(down'[c].body) = j.instr.size - (j.left - n) /\ j.left - n \in 0..j.instr.size
            /\ down'[c].body = Run(j.instr.offset, Len(down'[c].body)) /\ j.instr.size \in Nat
        BY <1>4, <1>5, <1>9, <2>1, <3>1
      <4>2. Len(down'[c].body) \in 0..j.instr.size
        <5> DEFINE size == j.instr.size  rest == j.left - n  len == Len(down'[c].body)
        <5>1. size \in Nat /\ rest \in 0..size /\ len = size - rest
          BY <4>1
        <5> HIDE DEF size, rest, len
        <5>2. len \in 0..size
          BY <5>1
        <5> QED BY <5>2 DEF size, len
      <4> QED BY <1>4, <1>6, <2>1, <2>2, <3>1, <4>1, <4>2 DEF Answering
    <3> QED BY <1>1, <1>6, <2>1, <2>2, <3>1, AnswerStep
  <2>3. CASE Now(c, next) /\ UNCHANGED closed
    <3>1. DOMAIN job' = Conns /\ job'[c] = next /\ \A b \in Conns : b # c => job'[b] = job[b]
      BY <2>3, JobGoes
    <3>2. ASSUME Asked(client[c]), Delivers(job[c], client[c], down[c], PostedFiles)
          PROVE  Answering(next, client[c], down'[c], closed[c])
      <4>1. /\ Len(down'[c].body) = j.instr.size - (j.left - n) /\ j.left - n \in 0..j.instr.size
            /\ down'[c].body = Run(j.instr.offset, Len(down'[c].body)) /\ j.instr.size \in Nat /\ j.instr.offset \in Nat
            /\ n \in 1..j.left /\ j.left \in 0..j.instr.size
            /\ j.fp.pos = j.instr.offset + j.instr.size - j.left /\ HandleOK(j)
        BY <1>4, <1>5, <1>9, <2>1, <3>2
      <4>2. Length(next) = Length(j)
        BY <1>3 DEF Length
      <4>3. /\ next.fp.pos = j.fp.pos + n /\ next.fp.type = j.fp.type /\ next.fp.name = j.fp.name
            /\ next.fp.len = j.fp.len /\ DOMAIN next.fp = DOMAIN j.fp
        BY <1>3, <4>1 DEF Advanced, HandleOK
      <4>4. HandleOK(next)
        BY <1>3, <4>1, <4>2, <4>3 DEF HandleOK
      <4>5. Len(down'[c].body) \in 0..j.instr.size
        <5> DEFINE size == j.instr.size  rest == j.left - n  len == Len(down'[c].body)
        <5>1. size \in Nat /\ rest \in 0..size /\ len = size - rest
          BY <4>1
        <5> HIDE DEF size, rest, len
        <5>2. len \in 0..size
          BY <5>1
        <5> QED BY <5>2 DEF size, len
      <4>6. j.fp.pos + n = j.instr.offset + j.instr.size - (j.left - n)
        <5> DEFINE size == j.instr.size  offset == j.instr.offset  left == j.left  pos == j.fp.pos
        <5>1. size \in Nat /\ offset \in Nat /\ left \in 0..size /\ n \in 1..left /\ pos = offset + size - left
          BY <4>1
        <5> HIDE DEF size, offset, left, pos
        <5>2. pos + n = offset + size - (left - n)
          BY <5>1
        <5> QED BY <5>2 DEF size, offset, left, pos
      <4> QED BY <1>3, <1>4, <2>1, <3>2, <4>1, <4>2, <4>3, <4>4, <4>5, <4>6 DEF Answering
    <3>3. next.pc \in After
      BY <1>3 DEF After
    <3> QED BY <1>1, <1>2, <1>3, <2>1, <2>3, <3>1, <3>2, <3>3, AnswerStep
  <2> QED BY <1>9, <2>2, <2>3
<1> QED BY <1>1, <1>7, <1>8, <1>9

\* A job that takes what is posted.
LEMMA PostStep ==
  ASSUME DownloadInv, NEW c \in Conns, UNCHANGED <<client, up>>, client[c].req.method = "POST", job[c].pc # "none",
         job[c].pc # "done", DOMAIN job' = Conns, DOMAIN down' = Conns, DOMAIN closed' = Conns,
         \A b \in Conns : b # c => job'[b] = job[b] /\ down'[b] = down[b] /\ closed'[b] = closed[b],
         UNCHANGED files \/ FilesKept',
         JobFields \subseteq DOMAIN job'[c], {"head", "body", "end"} \subseteq DOMAIN down'[c],
         \/ closed'[c] = closed[c] /\ Poster(job'[c], client[c])
         \/ /\ closed'[c] = closed[c] \cup {"server"} /\ job'[c].pc = "done"
            /\ job'[c].have \in Int /\ job'[c].virtual \in BOOLEAN
  PROVE  DownloadInv'
<1>1. ~Asked(client[c])
  BY DEF Asked
<1>2. Server(job[c], client[c], down[c], closed[c], PostedFiles)
  BY JobFacts
<1>3. Server(job'[c], client[c], down'[c], closed'[c], PostedFiles) /\ Poster(job'[c], client[c])
  BY <1>1, <1>2 DEF Server, Poster
<1> QED BY <1>1, <1>3, JobStep

LEMMA PostCloses ==
  ASSUME DownloadInv, NEW c \in Conns, UNCHANGED <<client, up>>, client[c].req.method = "POST", job[c].pc # "none",
         job[c].pc # "done", UNCHANGED files \/ FilesKept', NEW code, PostAnswer(c, code),
         NEW j, JobFields \subseteq DOMAIN j, j.have \in Int, j.virtual \in BOOLEAN, Closes(c, j)
  PROVE  DownloadInv'
<1> DEFINE head == [status |-> code, clen |-> NULL, chunked |-> FALSE]
<1>1. Answers(c, head, <<>>)
  BY DEF PostAnswer
<1> HIDE DEF head
<1>2. /\ DOMAIN down' = Conns /\ \A b \in Conns : b # c => down'[b] = down[b]
      /\ {"head", "body", "end"} \subseteq DOMAIN down'[c]
  BY <1>1, AnswerGoesOn
<1>3. /\ DOMAIN job' = Conns /\ \A b \in Conns : b # c => job'[b] = job[b]
      /\ DOMAIN closed' = Conns /\ \A b \in Conns : b # c => closed'[b] = closed[b]
      /\ closed'[c] = closed[c] \cup {"server"}
      /\ JobFields \subseteq DOMAIN job'[c] /\ job'[c].pc = "done"
      /\ job'[c].virtual = j.virtual /\ job'[c].have = j.have
  BY JobCloses
<1> QED BY <1>2, <1>3, PostStep

\* Only a file that is posted to changes.
LEMMA PostedChanges ==
  ASSUME DownloadInv, UNCHANGED client, NEW c \in Conns, NEW file, client[c].req # NULL,
         client[c].req.method = "POST", file = remove_dots(client[c].req.path),
         DOMAIN files' = DOMAIN files \cup {file} \/ DOMAIN files' = DOMAIN files,
         \A f \in DOMAIN files : f # file => files'[f] = files[f],
         file \in DOMAIN files' => files'[file] \in [length : Nat, directory : BOOLEAN, readable : BOOLEAN]
  PROVE  FilesKept'
<1>1. PostedFiles' = PostedFiles
  BY PostedKept
<1>2. file \in PostedFiles
  BY DEF PostedFiles, req
<1>3. FilesKept
  BY DEF DownloadInv
<1> QED BY <1>1, <1>2, <1>3 DEF FilesKept

LEMMA OpenPostKeeps == ASSUME DownloadInv, NEW c \in Conns, OpenPost(c) PROVE DownloadInv'
<1> DEFINE j == job[c]
           file == j.file
           empty == [length |-> 0, directory |-> FALSE, readable |-> TRUE]
           next == [job[c] EXCEPT !.pc = "recv", !.left = 0]
<1>1. /\ job[c].pc = "post" /\ job[c].pc # "none" /\ job[c].pc # "done" /\ UNCHANGED <<client, up>>
      /\ \/ (\E code \in Nat : PostAnswer(c, code)) /\ Closes(c, job[c]) /\ UNCHANGED files
         \/ /\ file # NULL
            /\ files' = [f \in DOMAIN files \cup {file} |-> IF f = file THEN empty ELSE files[f]]
            /\ \/ (req(c).chunked \/ req(c).clen \notin {0, NULL}) /\ Now(c, next) /\ UNCHANGED <<down, closed>>
               \/ (\E code \in Nat : PostAnswer(c, code)) /\ Closes(c, job[c])
  <2>1. HTTP_INTERNAL_SERVER_ERROR \in Nat /\ HTTP_UNAUTHORIZED \in Nat /\ HTTP_BAD_REQUEST \in Nat
    BY DEF HTTP_INTERNAL_SERVER_ERROR, HTTP_UNAUTHORIZED, HTTP_BAD_REQUEST
  <2> QED BY <2>1 DEF OpenPost
<1>2. /\ JobFields \subseteq DOMAIN job[c] /\ {"head", "body", "end"} \subseteq DOMAIN down[c]
      /\ Poster(job[c], client[c]) /\ DOMAIN down = Conns /\ DOMAIN closed = Conns
      /\ client[c].req # NULL
  BY <1>1, JobFacts DEF req
<1>3. /\ j.have \in Int /\ j.virtual \in BOOLEAN /\ client[c].req.method = "POST"
      /\ file \in {NULL, remove_dots(client[c].req.path)}
  BY <1>1, <1>2 DEF Poster
<1>4. CASE (\E code \in Nat : PostAnswer(c, code)) /\ Closes(c, job[c]) /\ UNCHANGED files
  BY <1>1, <1>2, <1>3, <1>4, PostCloses
<1>5. CASE /\ file # NULL
           /\ files' = [f \in DOMAIN files \cup {file} |-> IF f = file THEN empty ELSE files[f]]
           /\ \/ (req(c).chunked \/ req(c).clen \notin {0, NULL}) /\ Now(c, next) /\ UNCHANGED <<down, closed>>
              \/ (\E code \in Nat : PostAnswer(c, code)) /\ Closes(c, job[c])
  <2>1. file = remove_dots(client[c].req.path)
    BY <1>3, <1>5
  <2>2. FilesKept'
    <3>1. /\ DOMAIN files' = DOMAIN files \cup {file} /\ \A f \in DOMAIN files : f # file => files'[f] = files[f]
          /\ files'[file] = empty
      BY <1>5
    <3>2. empty \in [length : Nat, directory : BOOLEAN, readable : BOOLEAN]
      OBVIOUS
    <3> HIDE DEF file, empty
    <3> QED BY <1>1, <1>2, <1>3, <2>1, <3>1, <3>2, PostedChanges
  <2>3. CASE (\E code \in Nat : PostAnswer(c, code)) /\ Closes(c, job[c])
    BY <1>1, <1>2, <1>3, <2>2, <2>3, PostCloses
  <2>4. CASE (req(c).chunked \/ req(c).clen \notin {0, NULL}) /\ Now(c, next) /\ UNCHANGED <<down, closed>>
    <3>1. JobFields \subseteq DOMAIN next /\ next.pc = "recv" /\ next.left = 0 /\ next.file = j.file
          /\ next.have = j.have /\ next.virtual = j.virtual
      BY <1>2 DEF JobFields
    <3> HIDE DEF next
    <3>2. DOMAIN job' = Conns /\ job'[c] = next /\ \A b \in Conns : b # c => job'[b] = job[b]
      BY <2>4, JobGoes
    <3>3. Poster(next, client[c])
      BY <1>3, <2>1, <2>4, <3>1 DEF Poster, req
    <3> QED BY <1>1, <1>2, <1>3, <2>2, <2>4, <3>1, <3>2, <3>3, PostStep
  <2> QED BY <1>5, <2>3, <2>4
<1> QED BY <1>1, <1>4, <1>5

LEMMA RecvFacts ==
  ASSUME DownloadInv, NEW c \in Conns, job[c].pc = "recv"
  PROVE  /\ JobFields \subseteq DOMAIN job[c] /\ {"head", "body", "end"} \subseteq DOMAIN down[c]
         /\ DOMAIN down = Conns /\ DOMAIN closed = Conns /\ client[c].req # NULL /\ client[c].req.method = "POST"
         /\ job[c].have \in Int /\ job[c].left \in Int /\ job[c].virtual \in BOOLEAN /\ up[c].bytes \in Int
         /\ job[c].file = remove_dots(client[c].req.path)
         /\ req(c).chunked \/ req(c).clen \in Nat
<1>1. /\ JobFields \subseteq DOMAIN job[c] /\ {"head", "body", "end"} \subseteq DOMAIN down[c]
      /\ Poster(job[c], client[c]) /\ DOMAIN down = Conns /\ DOMAIN closed = Conns /\ req(c) \in Requests /\ req(c) # NULL
  BY JobFacts
<1>2. WireOK(up[c])
  BY DEF DownloadInv, Tables
<1> QED BY <1>1, <1>2, RequestsAssumption DEF Poster, WireOK, req

LEMMA RecvKeeps == ASSUME DownloadInv, NEW c \in Conns, RecvPost(c) PROVE DownloadInv'
<1> DEFINE have == IF req(c).chunked THEN up[c].bytes ELSE Min({up[c].bytes, req(c).clen})
           whole == IF req(c).chunked THEN up[c].end ELSE have = req(c).clen
           next == [job[c] EXCEPT !.have = have, !.whole = whole]
<1>1. /\ job[c].pc = "recv" /\ job[c].pc # "none" /\ job[c].pc # "done" /\ UNCHANGED <<client, up, files>>
      /\ \/ Now(c, next) /\ UNCHANGED <<down, closed>>
         \/ PostAnswer(c, HTTP_BAD_REQUEST) /\ Closes(c, job[c])
  BY DEF RecvPost
<1>2. /\ JobFields \subseteq DOMAIN job[c] /\ {"head", "body", "end"} \subseteq DOMAIN down[c]
      /\ DOMAIN down = Conns /\ DOMAIN closed = Conns /\ client[c].req # NULL /\ client[c].req.method = "POST"
      /\ job[c].have \in Int /\ job[c].left \in Int /\ job[c].virtual \in BOOLEAN /\ up[c].bytes \in Int
      /\ job[c].file = remove_dots(client[c].req.path)
      /\ req(c).chunked \/ req(c).clen \in Nat
  BY <1>1, RecvFacts
<1>3. have \in Int
  <2>1. CASE req(c).chunked
    BY <1>2, <2>1
  <2>2. CASE ~req(c).chunked
    <3> DEFINE bytes == up[c].bytes  clen == req(c).clen
    <3>1. bytes \in Int /\ clen \in Int
      BY <1>2, <2>2
    <3> HIDE DEF bytes, clen
    <3>2. Min({bytes, clen}) = IF bytes <= clen THEN bytes ELSE clen
      BY <3>1, MinMax, Zenon
    <3>3. Min({bytes, clen}) \in Int
      BY <3>1, <3>2
    <3> QED BY <2>2, <3>3 DEF bytes, clen
  <2> QED BY <2>1, <2>2
<1> HIDE DEF have, whole
<1>4. CASE PostAnswer(c, HTTP_BAD_REQUEST) /\ Closes(c, job[c])
  BY <1>1, <1>2, <1>4, PostCloses
<1>5. CASE Now(c, next) /\ UNCHANGED <<down, closed>>
  <2>1. JobFields \subseteq DOMAIN next /\ next.pc = "recv" /\ next.left = job[c].left /\ next.file = job[c].file
        /\ next.have = have /\ next.virtual = job[c].virtual
    BY <1>1, <1>2 DEF JobFields
  <2> HIDE DEF next
  <2>2. DOMAIN job' = Conns /\ job'[c] = next /\ \A b \in Conns : b # c => job'[b] = job[b]
    BY <1>5, JobGoes
  <2>3. Poster(next, client[c])
    <3>1. Poster(job[c], client[c])
      BY JobFacts
    <3> QED BY <1>1, <1>3, <2>1, <3>1 DEF Poster
  <2> QED BY <1>1, <1>2, <1>5, <2>1, <2>2, <2>3, PostStep
<1> QED BY <1>1, <1>4, <1>5

LEMMA WriteKeeps == ASSUME DownloadInv, NEW c \in Conns, WritePost(c) PROVE DownloadInv'
<1> DEFINE n == Min({WEB_SERVER_BUF_SIZE, job[c].have - job[c].left})
           at == job[c].left + n
           file == job[c].file
           next == [job[c] EXCEPT !.left = at]
<1>1. /\ job[c].pc = "recv" /\ job[c].pc # "none" /\ job[c].pc # "done" /\ UNCHANGED <<client, up>>
      /\ files' = [files EXCEPT ![file].length = Max({@, at})]
      /\ \/ PostAnswer(c, OK) /\ Closes(c, next)
         \/ Now(c, next) /\ UNCHANGED <<down, closed>>
  BY DEF WritePost
<1>2. /\ JobFields \subseteq DOMAIN job[c] /\ {"head", "body", "end"} \subseteq DOMAIN down[c]
      /\ DOMAIN down = Conns /\ DOMAIN closed = Conns /\ client[c].req # NULL /\ client[c].req.method = "POST"
      /\ job[c].have \in Int /\ job[c].left \in Int /\ job[c].virtual \in BOOLEAN
      /\ file = remove_dots(client[c].req.path)
  BY <1>1, RecvFacts
<1>3. at \in Int
  <2> DEFINE a == WEB_SERVER_BUF_SIZE  b == job[c].have - job[c].left
  <2>1. a \in Int /\ b \in Int
    BY <1>2, ContentAssumption
  <2> HIDE DEF a, b
  <2>2. Min({a, b}) = IF a <= b THEN a ELSE b
    BY <2>1, MinMax, Zenon
  <2>3. Min({a, b}) \in Int
    BY <2>1, <2>2
  <2> QED BY <1>2, <2>3 DEF a, b
<1> HIDE DEF at
<1>4. FilesKept'
  <2>1. DOMAIN files' = DOMAIN files /\ \A f \in DOMAIN files : f # file => files'[f] = files[f]
    BY <1>1
  <2>2. file \in DOMAIN files' => files'[file] \in [length : Nat, directory : BOOLEAN, readable : BOOLEAN]
    <3> SUFFICES ASSUME file \in DOMAIN files PROVE files'[file] \in [length : Nat, directory : BOOLEAN, readable : BOOLEAN]
      BY <2>1
    <3> DEFINE old == files[file]
               length == old.length
    <3>1. old \in [length : Nat, directory : BOOLEAN, readable : BOOLEAN]
      BY DEF DownloadInv, FilesKept
    <3>2. files'[file] = [old EXCEPT !.length = Max({length, at})]
      BY <1>1
    <3>3. length \in Nat
      BY <3>1
    <3> HIDE DEF length
    <3>4. Max({length, at}) = IF length <= at THEN at ELSE length
      <4>1. length \in Int
        BY <3>3
      <4> QED BY <1>3, <4>1, MinMax, Zenon
    <3>5. Max({length, at}) \in Nat
      BY <1>3, <3>3, <3>4
    <3> QED BY <3>1, <3>2, <3>5
  <2> HIDE DEF file
  <2> QED BY <1>1, <1>2, <2>1, <2>2, PostedChanges
<1>5. JobFields \subseteq DOMAIN next /\ next.pc = "recv" /\ next.left = at /\ next.file = job[c].file
      /\ next.have = job[c].have /\ next.virtual = job[c].virtual
  BY <1>1, <1>2 DEF JobFields
<1> HIDE DEF next
<1>6. CASE PostAnswer(c, OK) /\ Closes(c, next)
  BY <1>1, <1>2, <1>4, <1>5, <1>6, PostCloses
<1>7. CASE Now(c, next) /\ UNCHANGED <<down, closed>>
  <2>1. DOMAIN job' = Conns /\ job'[c] = next /\ \A b \in Conns : b # c => job'[b] = job[b]
    BY <1>7, JobGoes
  <2>2. Poster(next, client[c])
    <3>1. Poster(job[c], client[c])
      BY JobFacts
    <3> QED BY <1>1, <1>3, <1>5, <3>1 DEF Poster
  <2> QED BY <1>1, <1>2, <1>4, <1>5, <1>7, <2>1, <2>2, PostStep
<1> QED BY <1>1, <1>6, <1>7
-----------------------------------------------------------------------------
(* The rest of the specification, and what follows. *)

LEMMA NothingMoves ==
  ASSUME DownloadInv, UNCHANGED <<files, job, client, up, down, closed>>
  PROVE  DownloadInv'
<1>1. PostedFiles' = PostedFiles
  BY PostedKept
<1> QED BY <1>1 DEF DownloadInv, Tables, FilesKept

LEMMA DownloadInit == Init => DownloadInv
<1> SUFFICES ASSUME Init PROVE DownloadInv
  OBVIOUS
<1>1. PICK s \in Scenarios : client = [c \in Conns |-> NewClient(s.asks[c])]
  BY DEF Init
<1>2. /\ job = [c \in Conns |-> NoJob] /\ up = [c \in Conns |-> [head |-> FALSE, bytes |-> 0, end |-> FALSE]]
      /\ down = [c \in Conns |-> [head |-> NULL, body |-> <<>>, end |-> FALSE]] /\ closed = [c \in Conns |-> {}]
      /\ files = InitialFiles
  BY DEF Init
<1>3. Tables
  BY <1>1, <1>2 DEF Tables, WireOK
<1>4. FilesKept
  BY <1>2, ContentAssumption DEF FilesKept
<1>5. ASSUME NEW c \in Conns
      PROVE  ConnOK(job[c], client[c], down[c], closed[c], up[c].head, PostedFiles)
  <2> DEFINE j == job[c]  r == client[c]  d == down[c]  ask == s.asks[c]
  <2>1. ask \in Requests \cup {NULL}
    BY DEF Requests
  <2>2. /\ JobFields \subseteq DOMAIN j /\ j.pc = "none" /\ j.virtual \in BOOLEAN /\ j.have = 0
        /\ {"head", "body", "end"} \subseteq DOMAIN d /\ d.head = NULL /\ d.body = <<>> /\ ~d.end
        /\ closed[c] = {} /\ up[c].head = FALSE
    BY <1>2 DEF NoJob, JobFields
  <2>3. r = NewClient(ask)
    BY <1>1
  <2> HIDE DEF j, d, r, ask
  <2>4. /\ {"pc", "req", "entity", "complete", "offset", "cancel", "ret"} \subseteq DOMAIN r
        /\ r.req = ask /\ r.pc = (IF ask = NULL THEN "done" ELSE "start") /\ r.ret = NULL
        /\ r.entity = <<>> /\ r.complete = FALSE /\ r.offset = 0
    BY <2>3 DEF NewClient
  <2>5. Shape(j, r, d)
    BY <2>2, <2>4 DEF Shape
  <2>6. Server(j, r, d, closed[c], PostedFiles)
    BY <2>2 DEF Server, Before, After, Delivers
  <2>7. Poster(j, r)
    BY <2>2 DEF Poster
  <2>8. Reader(j, r, d, closed[c], PostedFiles)
    BY <2>2, <2>4, NullAssumption DEF Reader, Waiting, Asked, Delivers
  <2>9. Idle(j, r, up[c].head)
    BY <2>1, <2>2, <2>4 DEF Idle
  <2> QED BY <2>5, <2>6, <2>7, <2>8, <2>9 DEF ConnOK, j, r, d
<1> QED BY <1>3, <1>4, <1>5 DEF DownloadInv

LEMMA DownloadStep == DownloadInv /\ [Next]_vars => DownloadInv'
<1> SUFFICES ASSUME DownloadInv, [Next]_vars PROVE DownloadInv'
  OBVIOUS
<1>1. CASE Owner
  <2>1. UNCHANGED <<files, job, client, up, down, closed>>
    BY <1>1 DEF Owner, web_server_set_alias, AssignAlias, Setup, wireVars
  <2> QED BY <2>1, NothingMoves
<1>2. ASSUME NEW c \in Conns, Serve(c) PROVE DownloadInv'
  BY <1>2, DispatchKeeps, GrabKeeps, ProcessKeeps, DocumentKeeps, OpenKeeps, PieceKeeps, OpenPostKeeps, RecvKeeps,
     WriteKeeps DEF Serve
<1>3. ASSUME NEW c \in Conns, Ask(c) PROVE DownloadInv'
  BY <1>3, OpensKeeps, WritesKeeps, HeadRead, MoreRead, PieceRead, MessageReceived DEF Ask
<1>4. ASSUME NEW c \in Conns, Abort(c) PROVE DownloadInv'
  BY <1>4, AbortKeeps
<1>5. ASSUME NEW c \in Conns, http_CancelHttpGet(c) PROVE DownloadInv'
  BY <1>5, Cancelled
<1>6. CASE UNCHANGED vars
  BY <1>6, NothingMoves DEF vars
<1> QED BY <1>1, <1>2, <1>3, <1>4, <1>5, <1>6 DEF Next

LEMMA WholeFollows == DownloadInv => DownloadIsWhole
<1> SUFFICES ASSUME DownloadInv, NEW c \in Conns,
                    client[c].ret = "SUCCESS" \/ (client[c].ret = "closed" /\ req(c).method = "GET"),
                    down[c].head.status \in {OK, HTTP_PARTIAL_CONTENT}, req(c).method = "GET",
                    ~(/\ job[c].file # NULL /\ ~job[c].virtual
                      /\ \E b \in Conns : req(b) # NULL /\ req(b).method = "POST" /\ remove_dots(req(b).path) = job[c].file),
                    job[c].file = NULL => req(c).range = NULL
             PROVE  client[c].entity = Wanted(req(c).range, IF job[c].file = NULL THEN DocLength
                      ELSE IF job[c].virtual THEN dlna_http_get_info(Virtual, job[c].file).file_length
                      ELSE files[job[c].file].length)
  BY DEF DownloadIsWhole
<1>1. /\ Server(job[c], client[c], down[c], closed[c], PostedFiles)
      /\ Reader(job[c], client[c], down[c], closed[c], PostedFiles)
      /\ Idle(job[c], client[c], up[c].head)
  BY DEF DownloadInv, ConnOK
<1>2. client[c].ret \in {"SUCCESS", "closed"} /\ client[c].ret # NULL
  BY NullAssumption
<1>3. Asked(client[c])
  BY <1>1, <1>2 DEF Idle, Asked, req
<1>4. down[c].head # NULL
  BY <1>1, <1>2, <1>3 DEF Reader, Waiting
<1>5. Judged(job[c], client[c], PostedFiles)
  BY DEF Judged, PostedFiles, req
<1>6. Delivers(job[c], client[c], down[c], PostedFiles)
  BY <1>4, <1>5 DEF Delivers
<1>7. client[c].entity = Run(job[c].instr.offset, job[c].instr.size)
  BY <1>1, <1>2, <1>3, <1>6 DEF Reader
<1>8. Answering(job[c], client[c], down[c], closed[c])
  BY <1>1, <1>3, <1>6 DEF Server
<1>9. client[c].entity = Wanted(req(c).range, Length(job[c]))
  BY <1>7, <1>8 DEF Answering, Grants, req
<1>10. job[c].file # NULL /\ ~job[c].virtual => files[job[c].file] = InitialFiles[job[c].file]
  BY <1>5, <1>8 DEF Answering, Judged, DownloadInv, FilesKept
<1> QED BY <1>9, <1>10 DEF Length

\* A call that succeeds has read the bytes it asked for, no more and no fewer, however the server cut the
\* answer into pieces and the caller into reads (httpreadwrite.c:379, webserver.c:944).
THEOREM DownloadsAreWhole == Spec => []DownloadIsWhole
<1>1. Init => DownloadInv
  BY DownloadInit
<1>2. DownloadInv /\ [Next]_vars => DownloadInv'
  BY DownloadStep
<1>3. DownloadInv => DownloadIsWhole
  BY WholeFollows
<1> QED BY <1>1, <1>2, <1>3, PTL DEF Spec
=============================================================================
