--------------------------- MODULE LanguageServer ---------------------------
(***************************************************************************)
(* `alcy lsp': one server, one client, and the two pipes between them.     *)
(* The server reads a message at a time and handles it to the end; the     *)
(* client does not wait for an answer before it sends the next message, so *)
(* edits, closes and requests queue up in front of the server and answers  *)
(* in front of the client.                                                 *)
(*                                                                         *)
(* An answer is abstracted to what it was computed from: the text of the   *)
(* buffer and the text the cached analysis read.  The token arrays keep    *)
(* their numbers, because deltas are computed from them.                   *)
(***************************************************************************)
EXTENDS TextDocument, FiniteSets, Functions, TLC

CONSTANTS
  Uris,
  Sessions,         \* what a client may do: its texts, insertions, methods, messages
  PipeRoom,         \* messages a pipe holds before its writer blocks
  VersionWidth,     \* bits of the version a cached analysis is kept under
  TokenData(_, _)   \* semantic_tokens_in: the numbers for a text and an analysis

\* The characters a client writes, by how they are encoded and whether they end
\* a line.
Characters == {"a", "n", "r", "e", "f"}

ASSUME LanguageServerAssumption ==
  /\ Uris # {}
  /\ PipeRoom \in Nat \ {0} /\ VersionWidth \in Nat /\ 2^VersionWidth \in Nat \ {0}
  /\ \A s \in Sessions : /\ s.messages \in Nat /\ s.batch \in Nat
                          /\ s.texts \cup s.puts \subseteq Seq(Characters)

VARIABLES
  \* class Server
  initialized, shutdown,
  status,           \* "up", or what run() returned
  failed,           \* Transport::failed_
  documents, cache, tokens, diagnostics,
  nextTokens, nextDiagnostics,
  \* the pipes
  inbox, outbox,
  closed,           \* the client has closed its ends
  \* the client
  session, sent,    \* what it may do, and how many messages it has sent
  life,             \* "new", "up" once it sent initialize or initialized, "down"
                    \* after shutdown, "gone" after exit
  buffers,          \* the documents it has open
  asked,            \* its requests that are not answered yet, the oldest first
  heldTokens, heldReport, shown

serverVars == <<initialized, shutdown, status, documents, cache, tokens, diagnostics,
                nextTokens, nextDiagnostics>>
caches == <<cache, tokens, diagnostics, nextTokens, nextDiagnostics>>
clientVars == <<session, sent, life, buffers, asked, heldTokens, heldReport, shown>>
vars == <<serverVars, failed, inbox, outbox, closed, clientVars>>

\* insert_or_assign and erase
With(f, u, v) == [x \in DOMAIN f \cup {u} |-> IF x = u THEN v ELSE f[x]]
Without(f, u) == Restrict(f, DOMAIN f \ {u})

Empty == [u \in {} |-> u]

-----------------------------------------------------------------------------
(***************************************************************************)
(* The server                                                              *)
(***************************************************************************)
Result(id, value) == [kind |-> "result", id |-> id, value |-> value]
Error(id) == [kind |-> "error", id |-> id]
Publish(uri, items) == [kind |-> "publish", uri |-> uri, items |-> items]

Nothing == [of |-> "nothing"]

\* Transport::read_message, for a frame that is whole.
Message == Head(inbox)
Read(kind, methods) ==
  /\ status = "up" /\ ~failed
  /\ inbox # <<>>
  /\ Message.kind = kind
  /\ Message.method \in methods
  /\ inbox' = Tail(inbox)
  /\ UNCHANGED <<closed, clientVars>>

\* Transport::write_message: it blocks while the pipe is full, and fails when
\* nobody is left to read.
Write(m) ==
  IF closed THEN failed' = TRUE /\ UNCHANGED outbox
  ELSE /\ Len(outbox) < PipeRoom
       /\ outbox' = Append(outbox, m)
       /\ UNCHANGED failed

Silent == UNCHANGED <<outbox, failed>>

DocumentMethods == {"analysis", "text", "formatting", "tokens", "delta", "diagnostic"}
Methods == DocumentMethods \cup {"initialize", "shutdown", "workspace", "unknown"}

\* handle: a payload that is no JSON object, and a request without a method.
AnswerGarbage ==
  /\ Read("garbage", {"none"})
  /\ Write(Error(0))
  /\ UNCHANGED serverVars

Initialize ==
  /\ Read("request", {"initialize"})
  /\ initialized' = TRUE
  /\ Write(IF initialized THEN Error(Message.id) ELSE Result(Message.id, Nothing))
  /\ UNCHANGED <<shutdown, status, documents, caches>>

\* Before the session is open, and after shutdown, a request is refused.
Refuse ==
  /\ Read("request", Methods \ {"initialize"})
  /\ ~initialized \/ shutdown
  /\ Write(Error(Message.id))
  /\ UNCHANGED serverVars

\* Fault: the session's end is not asked for.
ServeAfterShutdown(methods) == initialized /\ Read("request", methods)

\* A request that is served.
Serve(methods) == initialized /\ ~shutdown /\ Read("request", methods)

Shutdown ==
  /\ Serve({"shutdown"})
  /\ shutdown' = TRUE
  /\ Write(Result(Message.id, Nothing))
  /\ UNCHANGED <<initialized, status, documents, caches>>

Unknown ==
  /\ Serve({"unknown"})
  /\ Write(Error(Message.id))
  /\ UNCHANGED serverVars

IsOpen == Message.uri \in DOMAIN documents
Document == documents[Message.uri]

\* Fault: a request for a document that is not open goes by, as a change does.
NotOpenSilently ==
  /\ Serve(DocumentMethods)
  /\ ~IsOpen
  /\ Silent
  /\ UNCHANGED serverVars

\* A request for a document that is not open: formatting is refused, the
\* others have nothing to say.
NotOpen ==
  /\ Serve(DocumentMethods)
  /\ ~IsOpen
  /\ Write(IF Message.method = "formatting" THEN Error(Message.id)
                                            ELSE Result(Message.id, Nothing))
  /\ UNCHANGED serverVars

\* Fault: the version is kept a bit wider than the field is.
NarrowWide(version) == version % 2^(VersionWidth + 1)

\* The version a u32 keeps of a document's i64.
Narrow(version) == version % 2^VersionWidth

\* AnalysisCache::get: the entry it answers from, kept or built.
Cached(uri, document) ==
  uri \in DOMAIN cache /\ cache[uri].version = document.version

Entry(uri, document) ==
  IF Cached(uri, document) THEN cache[uri]
  ELSE [version |-> Narrow(document.version), text |-> document.text]

Get == cache' = With(cache, Message.uri, Entry(Message.uri, Document))

Analysed == Entry(Message.uri, Document).text

\* hover, definition, references, completion, rename, the hierarchies, the hints
\* and the others that read the checked package.
AnswerFromAnalysis ==
  /\ Serve({"analysis"})
  /\ IsOpen
  /\ Get
  /\ Write(Result(Message.id,
                  [of |-> "analysis", text |-> Document.text, analysed |-> Analysed]))
  /\ UNCHANGED <<initialized, shutdown, status, documents, tokens, diagnostics,
                 nextTokens, nextDiagnostics>>

\* foldingRange, documentSymbol, codeAction and formatting read the buffer.
AnswerFromText ==
  /\ Serve({"text", "formatting"})
  /\ IsOpen
  /\ Write(Result(Message.id, [of |-> "text", text |-> Document.text]))
  /\ UNCHANGED serverVars

\* workspace/symbol and workspace/diagnostic read every buffer.
AnswerFromAll ==
  /\ Serve({"workspace"})
  /\ Write(Result(Message.id, [of |-> "all", texts |-> [u \in DOMAIN documents |-> documents[u].text]]))
  /\ UNCHANGED serverVars

-----------------------------------------------------------------------------
(***************************************************************************)
(* Semantic tokens: five numbers a token, remembered under a fresh id.     *)
(***************************************************************************)
TokenWidth == 5

LesserOf(a, b) == IF a < b THEN a ELSE b
Whole(n) == n - (n % TokenWidth)

\* How many numbers two arrays share at their fronts.
CommonPrefix(a, b) ==
  LET matched[n \in Nat] ==
        IF n < LesserOf(Len(a), Len(b)) /\ a[n + 1] = b[n + 1] THEN matched[n + 1] ELSE n
  IN  matched[0]

\* Fault: what the front and the back share may overlap.
ComputeEditsOverlapping(previous, current) ==
  LET prefix == Whole(CommonPrefix(previous, current))
      suffix == Whole(CommonPrefix(Reverse(previous), Reverse(current)))
  IN  [start |-> prefix, delete |-> Len(previous) - prefix - suffix,
       data |-> SubSeq(current, prefix + 1, Len(current) - suffix)]

\* compute_edits: whole tokens off the front, then off what is left at the back.
ComputeEdits(previous, current) ==
  LET prefix == Whole(CommonPrefix(previous, current))
      Rest(s) == Reverse(SubSeq(s, prefix + 1, Len(s)))
      suffix == Whole(CommonPrefix(Rest(previous), Rest(current)))
  IN  [start |-> prefix, delete |-> Len(previous) - prefix - suffix,
       data |-> SubSeq(current, prefix + 1, Len(current) - suffix)]

Current == TokenData(Document.text, Analysed)

\* SemanticTokensCache::full and ::delta.
AnswerTokens ==
  /\ Serve({"tokens", "delta"})
  /\ IsOpen
  /\ Get
  /\ tokens' = With(tokens, Message.uri, [id |-> nextTokens, data |-> Current])
  /\ nextTokens' = nextTokens + 1
  /\ LET known == /\ Message.method = "delta"
                  /\ Message.uri \in DOMAIN tokens
                  /\ Message.previous = {tokens[Message.uri].id}
     IN  Write(Result(Message.id,
           IF known THEN [of |-> "edits", id |-> nextTokens,
                          edits |-> ComputeEdits(tokens[Message.uri].data, Current)]
                    ELSE [of |-> "tokens", id |-> nextTokens, data |-> Current]))
  /\ UNCHANGED <<initialized, shutdown, status, documents, diagnostics, nextDiagnostics>>

\* DiagnosticsCache::pull
AnswerDiagnostic ==
  /\ Serve({"diagnostic"})
  /\ IsOpen
  /\ LET u == Message.uri
         unchanged == /\ u \in DOMAIN diagnostics
                      /\ diagnostics[u].version = Document.version
                      /\ Message.previous = {diagnostics[u].id}
     IN  IF unchanged
           THEN /\ Write(Result(Message.id, [of |-> "unchanged", id |-> diagnostics[u].id]))
                /\ UNCHANGED <<diagnostics, nextDiagnostics>>
           ELSE /\ Write(Result(Message.id, [of |-> "report", id |-> nextDiagnostics,
                                             text |-> Document.text]))
                /\ diagnostics' = With(diagnostics, u, [id |-> nextDiagnostics,
                                                        version |-> Document.version])
                /\ nextDiagnostics' = nextDiagnostics + 1
  /\ UNCHANGED <<initialized, shutdown, status, documents, cache, tokens, nextTokens>>

-----------------------------------------------------------------------------
(***************************************************************************)
(* Notifications                                                           *)
(***************************************************************************)
Exit ==
  /\ Read("notification", {"exit"})
  /\ status' = IF shutdown THEN "exit 0" ELSE "exit 1"
  /\ Silent
  /\ UNCHANGED <<initialized, shutdown, documents, caches>>

Initialized ==
  /\ Read("notification", {"initialized"})
  /\ initialized' = TRUE
  /\ Silent
  /\ UNCHANGED <<shutdown, status, documents, caches>>

\* Documents are followed from the session's opening to shutdown, and a change of a
\* document that is not open goes by.
Follows(method) == initialized /\ ~shutdown /\ Read("notification", {method})

Ignore ==
  /\ Read("notification", {"didOpen", "didChange", "didClose"})
  /\ \/ ~initialized \/ shutdown
     \/ Message.method = "didChange" /\ ~IsOpen
  /\ Silent
  /\ UNCHANGED serverVars

\* Opened, and its diagnostics published: nothing of an earlier opening is erased.
DidOpen ==
  /\ Follows("didOpen")
  /\ documents' = With(documents, Message.uri,
                       [version |-> Message.version, text |-> Message.text])
  /\ Write(Publish(Message.uri, <<Message.text>>))
  /\ UNCHANGED <<initialized, shutdown, status, caches>>

DidChange ==
  /\ Follows("didChange")
  /\ IsOpen
  /\ \E text \in {Apply(Document.text, Message.changes)} :
       /\ documents' = With(documents, Message.uri,
                            [version |-> Message.version, text |-> text])
       /\ Write(Publish(Message.uri, <<text>>))
  /\ UNCHANGED <<initialized, shutdown, status, caches>>

\* Fault: the analysis of a closed document is kept.
DidCloseKeepingAnalysis ==
  /\ Follows("didClose")
  /\ documents' = Without(documents, Message.uri)
  /\ tokens' = Without(tokens, Message.uri)
  /\ diagnostics' = Without(diagnostics, Message.uri)
  /\ Write(Publish(Message.uri, <<>>))
  /\ UNCHANGED <<initialized, shutdown, status, cache, nextTokens, nextDiagnostics>>

DidClose ==
  /\ Follows("didClose")
  /\ documents' = Without(documents, Message.uri)
  /\ cache' = Without(cache, Message.uri)
  /\ tokens' = Without(tokens, Message.uri)
  /\ diagnostics' = Without(diagnostics, Message.uri)
  /\ Write(Publish(Message.uri, <<>>))
  /\ UNCHANGED <<initialized, shutdown, status, nextTokens, nextDiagnostics>>

\* run: there is nothing left to read, or a write has failed.  SIGPIPE is left as
\* the process was given it, so the write may also have ended the process.
Stop ==
  /\ status = "up"
  /\ \/ failed /\ status' \in {"exit 1", "killed"}
     \/ ~failed /\ closed /\ inbox = <<>> /\ status' = "exit 1"
  /\ UNCHANGED <<initialized, shutdown, failed, documents, caches, inbox, outbox, closed,
                 clientVars>>

Server ==
  \/ AnswerGarbage \/ Initialize \/ Refuse \/ Shutdown \/ Unknown \/ NotOpen
  \/ AnswerFromAnalysis \/ AnswerFromText \/ AnswerFromAll
  \/ AnswerTokens \/ AnswerDiagnostic
  \/ Exit \/ Initialized \/ Ignore \/ DidOpen \/ DidChange \/ DidClose \/ Stop

-----------------------------------------------------------------------------
(***************************************************************************)
(* The client.  Its text is a sequence of characters; it counts lines and  *)
(* UTF-16 units its own way.  It opens a document it does not have open,   *)
(* while the session is open, and gives every change a higher version, as  *)
(* the protocol asks of it.                                                *)
(***************************************************************************)
Encode(chars) ==
  LET bytes == [a |-> <<"a">>, n |-> <<"n">>, r |-> <<"r">>,
                e |-> <<"e", "c">>, f |-> <<"f", "c", "c", "c">>]
  IN  FlattenSeq([i \in DOMAIN chars |-> bytes[chars[i]]])

\* The characters that end a line.
Breaks(chars) ==
  {i \in DOMAIN chars : \/ chars[i] = "n"
                        \/ chars[i] = "r" /\ (i = Len(chars) \/ chars[i + 1] # "n")}

\* The cursor positions: in front of, between and behind characters.
Cursors(chars) ==
  {k \in 0 .. Len(chars) : ~(k \in 1 .. Len(chars) - 1 /\ chars[k] = "r" /\ chars[k + 1] = "n")}

Units(chars) ==
  Len(chars) + Cardinality({i \in DOMAIN chars : chars[i] = "f"})

\* Where a cursor is, and how else a client may write it: past the end of the
\* line, and on the line behind the last one.
PositionsOf(chars, k) ==
  LET before == {i \in Breaks(chars) : i <= k}
      line == Cardinality(before)
      begin == IF before = {} THEN 0 ELSE CHOOSE i \in before : \A j \in before : j <= i
      exact == Position(line, Units(SubSeq(chars, begin + 1, k)))
      atEnd == k = Len(chars) \/ chars[k + 1] \in {"n", "r"}
  IN  {exact}
        \cup (IF atEnd THEN {[exact EXCEPT !.character = @ + 1]} ELSE {})
        \cup (IF k = Len(chars) THEN {Position(line + 1, 0)} ELSE {})

\* One edit the client makes: its text after it, and the change it sends.
WholeEdit(put) == [text |-> put, change |-> [hasRange |-> FALSE, text |-> Encode(put)]]

EditsBetween(puts, chars, i, j) ==
  {[text |-> SubSeq(chars, 1, i) \o put \o SubSeq(chars, j + 1, Len(chars)),
    change |-> [hasRange |-> TRUE, start |-> s, end |-> e, text |-> Encode(put)]] :
     put \in puts, s \in PositionsOf(chars, i), e \in PositionsOf(chars, j)}

Edits(from, chars) ==
  LET Ranges == {c \in Cursors(chars) \X Cursors(chars) : c[1] <= c[2]}
  IN  {WholeEdit(put) : put \in from.texts}
        \cup UNION {EditsBetween(from.puts, chars, c[1], c[2]) : c \in Ranges}

CanSend ==
  /\ ~closed /\ life # "gone"
  /\ sent < session.messages
  /\ Len(inbox) < PipeRoom

Send(m) ==
  /\ CanSend
  /\ sent' = sent + 1
  /\ inbox' = Append(inbox, m)
  /\ UNCHANGED <<serverVars, failed, outbox, closed, session, heldTokens, heldReport, shown>>

\* The result id the client sends along, if it holds one.
Previous(method, uri) ==
  CASE method = "delta" /\ uri \in DOMAIN heldTokens -> {heldTokens[uri].id}
    [] method = "diagnostic" /\ uri \in DOMAIN heldReport -> {heldReport[uri].id}
    [] OTHER -> {}

\* A request, noted with what the client holds when it asks: the texts of the
\* documents it has open, and whether the session is up.
Ask(method, uri) ==
  /\ method \in session.methods
  /\ Send([kind |-> "request", id |-> sent + 1, method |-> method, uri |-> uri,
           previous |-> Previous(method, uri)])
  /\ asked' = Append(asked,
       [id |-> sent + 1, method |-> method, uri |-> uri, during |-> life,
        texts |-> [u \in DOMAIN buffers |-> Encode(buffers[u].text)],
        previous |-> Previous(method, uri)])
  /\ life' = CASE method = "initialize" /\ life = "new" -> "up"
               [] method = "shutdown" /\ life = "up" -> "down"
               [] OTHER -> life
  /\ UNCHANGED buffers

Open(u) ==
  /\ life = "up" /\ u \notin DOMAIN buffers
  /\ \E text \in session.texts :
       /\ buffers' = With(buffers, u, [version |-> 1, text |-> text])
       /\ Send([kind |-> "notification", method |-> "didOpen", uri |-> u, version |-> 1,
                text |-> Encode(text)])
  /\ UNCHANGED <<life, asked>>

\* One change or two in a message; the second is made to the text the first left.
Edit(u) ==
  /\ CanSend /\ life = "up" /\ u \in DOMAIN buffers
  /\ LET version == buffers[u].version + 1
         Sends(text, changes) ==
           /\ buffers' = With(buffers, u, [version |-> version, text |-> text])
           /\ Send([kind |-> "notification", method |-> "didChange", uri |-> u,
                    version |-> version, changes |-> changes])
     IN  \E first \in Edits(session, buffers[u].text) :
           \/ Sends(first.text, <<first.change>>)
           \/ /\ session.batch > 1
              /\ \E second \in Edits(session, first.text) :
                   Sends(second.text, <<first.change, second.change>>)
  /\ UNCHANGED <<life, asked>>

Close(u) ==
  /\ life = "up" /\ u \in DOMAIN buffers
  /\ "didClose" \in session.methods
  /\ buffers' = Without(buffers, u)
  /\ Send([kind |-> "notification", method |-> "didClose", uri |-> u])
  /\ UNCHANGED <<life, asked>>

\* Also without initialize: the server takes the session as open from either.
SayInitialized ==
  /\ "initialized" \in session.methods
  /\ Send([kind |-> "notification", method |-> "initialized"])
  /\ life' = IF life = "new" THEN "up" ELSE life
  /\ UNCHANGED <<buffers, asked>>

SayExit ==
  /\ "exit" \in session.methods
  /\ Send([kind |-> "notification", method |-> "exit"])
  /\ life' = "gone"
  /\ UNCHANGED <<buffers, asked>>

SendGarbage ==
  /\ "garbage" \in session.methods
  /\ Send([kind |-> "garbage", method |-> "none"])
  /\ UNCHANGED <<life, buffers, asked>>

\* A notification the server is not there for: a change or a close of a document
\* that is not open, or while no session is open.
NotifyAnyway(u) ==
  /\ "stray" \in session.methods
  /\ life # "up" \/ u \notin DOMAIN buffers
  /\ \/ Send([kind |-> "notification", method |-> "didChange", uri |-> u, version |-> 1,
              changes |-> <<>>])
     \/ Send([kind |-> "notification", method |-> "didClose", uri |-> u])
  /\ UNCHANGED <<life, buffers, asked>>

\* The client ends without a word.
Disconnect ==
  /\ "disconnect" \in session.methods
  /\ ~closed
  /\ closed' = TRUE
  /\ UNCHANGED <<serverVars, failed, inbox, outbox, clientVars>>

\* An editor's array after the edits a delta answers.
Edited(data, edits) ==
  SubSeq(data, 1, edits.start) \o edits.data
    \o SubSeq(data, edits.start + edits.delete + 1, Len(data))

IsAnswer(m) == m.kind # "publish"

\* The client reads a message of the server's.
Receive ==
  /\ ~closed /\ outbox # <<>>
  /\ outbox' = Tail(outbox)
  /\ LET m == Head(outbox)
         Of(tag) == m.kind = "result" /\ m.value.of = tag
         u == IF asked = <<>> THEN CHOOSE v \in Uris : TRUE ELSE Head(asked).uri
         mine == u \in DOMAIN buffers
     IN  /\ asked' = IF IsAnswer(m) /\ m.id # 0 THEN Tail(asked) ELSE asked
         /\ heldTokens' =
              CASE Of("tokens") -> With(heldTokens, u, [id |-> m.value.id, data |-> m.value.data])
                [] Of("edits") -> With(heldTokens, u,
                     [id |-> m.value.id, data |-> Edited(heldTokens[u].data, m.value.edits)])
                [] OTHER -> heldTokens
         /\ heldReport' =
              IF Of("report") THEN With(heldReport, u, [id |-> m.value.id, text |-> m.value.text])
                              ELSE heldReport
         /\ shown' = IF IsAnswer(m) THEN shown
                     ELSE IF m.items = <<>> THEN Without(shown, m.uri)
                     ELSE With(shown, m.uri, m.items[1])
  /\ UNCHANGED <<serverVars, failed, inbox, closed, session, sent, life, buffers>>

Client ==
  \/ \E u \in Uris : Open(u) \/ Edit(u) \/ Close(u) \/ NotifyAnyway(u)
  \/ \E method \in DocumentMethods, u \in Uris : Ask(method, u)
  \/ \E method \in Methods \ DocumentMethods : Ask(method, CHOOSE u \in Uris : TRUE)
  \/ SayInitialized \/ SayExit \/ SendGarbage \/ Disconnect \/ Receive

Init ==
  /\ initialized = FALSE /\ shutdown = FALSE /\ status = "up" /\ failed = FALSE
  /\ documents = Empty /\ cache = Empty /\ tokens = Empty /\ diagnostics = Empty
  /\ nextTokens = 0 /\ nextDiagnostics = 0
  /\ inbox = <<>> /\ outbox = <<>> /\ closed = FALSE
  /\ session \in Sessions /\ sent = 0 /\ life = "new"
  /\ buffers = Empty /\ asked = <<>>
  /\ heldTokens = Empty /\ heldReport = Empty /\ shown = Empty

Next == Server \/ Client

Spec == Init /\ [][Next]_vars

\* The server's loop goes on while it has something to read; the client reads
\* what it is sent.
FairSpec == Spec /\ WF_vars(Server) /\ WF_vars(Receive)
-----------------------------------------------------------------------------
(***************************************************************************)
(* Properties                                                              *)
(***************************************************************************)
\* The server's tables hold what the code's types can: UTF-8 bytes, versions of a
\* u32 in the analysis cache, whole tokens; the pipes hold no more than they can.
TypeOK ==
  /\ {initialized, shutdown, failed, closed} \subseteq BOOLEAN
  /\ status \in {"up", "exit 0", "exit 1", "killed"}
  /\ DOMAIN documents \cup DOMAIN cache \cup DOMAIN tokens \cup DOMAIN diagnostics
       \cup DOMAIN buffers \cup DOMAIN heldTokens \cup DOMAIN heldReport \subseteq Uris
  /\ \A u \in DOMAIN documents : documents[u].text \in Seq(Bytes)
  /\ \A u \in DOMAIN cache : cache[u].version \in 0 .. (2^VersionWidth - 1)
  /\ \A u \in DOMAIN tokens : Len(tokens[u].data) % TokenWidth = 0
  /\ Len(inbox) <= PipeRoom /\ Len(outbox) <= PipeRoom
  /\ sent <= session.messages /\ Len(asked) <= sent
  /\ life \in {"new", "up", "down", "gone"}

\* "The buffer the client holds is the source of truth": once the server has
\* read everything, its buffers are the client's, byte for byte, whatever edits
\* were made in lines and UTF-16 units, one or several to a message; and once
\* the client has read everything too, the diagnostics it shows are those of
\* these texts, and none of a document that is closed.
Texts == [u \in DOMAIN buffers |-> Encode(buffers[u].text)]

BufferFollows ==
  inbox = <<>> /\ status = "up" /\ ~closed =>
    /\ [u \in DOMAIN documents |-> documents[u].text] = Texts
    /\ outbox = <<>> => shown = Texts

\* The places of the answers that are on their way to the client.
AnswersAt == {k \in DOMAIN outbox : IsAnswer(outbox[k]) /\ outbox[k].id # 0}
Answered == {outbox[k].id : k \in AnswersAt}

\* A request before the session is open or after shutdown is answered with an
\* error, and one in between never because of the session.  The notification
\* `initialized' alone opens the session: from then on requests are served, and
\* initialize, which only the first may be, is refused.
RightKind(request, kind) ==
  /\ request.method = "initialize" => (kind = "result" <=> request.during = "new")
  /\ request.during # "up" /\ request.method # "initialize" => kind = "error"
  /\ request.during = "up" /\ kind = "error" =>
       \/ request.method \in {"initialize", "unknown"}
       \/ request.method = "formatting" /\ request.uri \notin DOMAIN request.texts

\* Every request has one answer, of the right kind, in the order of the requests,
\* and none is lost or passed over.
OneAnswerEach ==
  /\ \A j, k \in AnswersAt : j < k => outbox[j].id < outbox[k].id
  /\ \A k \in AnswersAt :
       /\ \E n \in DOMAIN asked :
            asked[n].id = outbox[k].id /\ RightKind(asked[n], outbox[k].kind)
       /\ \A n \in DOMAIN asked : asked[n].id < outbox[k].id => asked[n].id \in Answered
  /\ inbox = <<>> /\ status = "up" /\ ~closed => \A n \in DOMAIN asked : asked[n].id \in Answered

\* An answer and the request it answers, where the client is about to read it.
Arrives(tag) ==
  /\ outbox # <<>> /\ asked # <<>>
  /\ Head(outbox).kind = "result" /\ Head(outbox).value.of = tag
Value == Head(outbox).value
Request == Head(asked)

\* An answer is about the text the client had when it asked, also when edits, a
\* close and another opening are queued around the request: an analysis kept
\* from an earlier version is not used for a later one, and "unchanged" is said
\* only of a report the client holds for the very same text.
AnswersDescribeTheText ==
  /\ Arrives("analysis") => {Value.text, Value.analysed} = {Request.texts[Request.uri]}
  /\ Arrives("text") => Value.text = Request.texts[Request.uri]
  /\ Arrives("all") => Value.texts = Request.texts
  /\ Arrives("report") => Value.text = Request.texts[Request.uri]
  /\ Arrives("unchanged") =>
       /\ Request.uri \in DOMAIN heldReport
       /\ heldReport[Request.uri] = [id |-> Value.id, text |-> Request.texts[Request.uri]]

\* The array the client has after a delta is the one a full answer would have
\* given it: the edit is made to the array it was computed from, and it leaves
\* the tokens of the text the client asked about.
TokensReplay ==
  LET Expected == TokenData(Request.texts[Request.uri], Request.texts[Request.uri])
  IN  /\ Arrives("tokens") => Value.data = Expected
      /\ Arrives("edits") =>
           /\ Request.uri \in DOMAIN heldTokens
           /\ Edited(heldTokens[Request.uri].data, Value.edits) = Expected

\* A client that reads what it is sent gets its answers.
RequestsAreAnswered == asked # <<>> ~> (asked = <<>> \/ closed)
=============================================================================
