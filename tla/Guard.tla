-------------------------------- MODULE Guard --------------------------------
(***************************************************************************)
(* The response guard: what leaves the hub fits MaxBytes bytes             *)
(* (hub/src/mcp/guard.ts).                                                 *)
(*                                                                         *)
(* A response is known by its sizes.  A JSON document has text fields, at   *)
(* most one array of equal elements and scalar fields; a plain text is a    *)
(* number of equally wide characters.  A step is one pass of a loop.        *)
(***************************************************************************)
EXTENDS Naturals, Sequences, FiniteSets, FiniteSetsExt

CONSTANTS
  MaxBytes,    \* MAX_RESPONSE_BYTES
  Suffix,      \* bytes of FIELD_SUFFIX
  Slack,       \* SLACK_BYTES
  MinText,     \* a text that long may be cut in the middle
  Passes,      \* MAX_ITERATIONS
  Frame,       \* bytes of the braces and of the metadata without returned_size
  Fallback,    \* bytes of the small document of the last resort
  TextSizes, TextCounts, ElementSizes, ElementCounts, ScalarSizes,  \* inputs
  CharWidths, PlainBytes                                            \* inputs

\* Decimal digits of a size of less than 10^9 bytes.
Power == <<10, 100, 1000, 10000, 100000, 1000000, 10000000, 100000000>>
Digits(n) ==
  CHOOSE d \in 1 .. 9 : /\ (d = 1 \/ Power[d - 1] <= n)
                      /\ (d = 9 \/ n < Power[d])

\* The bytes of a marker without its two sizes.
MarkerFrame == 36

\* The limit, 50 000 in the code, leaves room for the fallback and for the
\* longest marker, and no power of ten lies within two bytes below it: with a
\* limit of 1000, a text of two-byte characters and five digits would make the
\* size in the marker alternate between 999 and 1000.
GuardAssumption ==
  /\ {MaxBytes, Suffix, Slack, MinText, Passes, Frame, Fallback} \subseteq Nat
  /\ Fallback + 9 <= MaxBytes /\ Suffix < MinText
  /\ MarkerFrame + 18 <= MaxBytes /\ Digits(MaxBytes - 2) = Digits(MaxBytes)
  /\ TextSizes \cup TextCounts \cup ElementSizes \cup ElementCounts \cup ScalarSizes \subseteq Nat
  /\ CharWidths \subseteq 1 .. 4 /\ PlainBytes \subseteq Nat

VARIABLES
  stage,     \* "shrink", "fill", "mark", "done"
  pass,      \* passes of the loop of this stage
  doc,       \* the document while it shrinks
  returned,  \* returned_size, the size the response states of itself
  sent,      \* bytes of the text sent
  broken     \* it ends in a replacement character

vars == <<stage, pass, doc, returned, sent, broken>>

-----------------------------------------------------------------------------
(* Documents *)

\* A text: bytes of its own that are left, bytes of the suffix, bytes written
\* for each byte (2: all escaped), whether its key is in CONTENT_KEYS.
Text(n, w, c) == [body |-> n, tail |-> 0, written |-> w, content |-> c]
Shortened == [body |-> 0, tail |-> Suffix, written |-> 1, content |-> FALSE]
Size(t) == t.body + t.tail
Written(t) == t.written * t.body + t.tail

Documents ==
  {[texts |-> [i \in 1 .. n |-> IF i = 1 THEN Text(s, w, c) ELSE Text(t, 1, ~c)],
    count |-> k, each |-> e, scalars |-> sc] :
     n \in TextCounts, s \in TextSizes, t \in TextSizes, w \in {1, 2}, c \in BOOLEAN,
     k \in ElementCounts, e \in ElementSizes, sc \in {<<>>} \cup {<<x>> : x \in ScalarSizes}}

SumOver(f) == MapThenSumSet(LAMBDA i : f[i], DOMAIN f)

\* JSON.stringify(rootObj, null, 2)
Bytes(d, r) ==
  Frame + Digits(r) + d.count * d.each
  + SumOver([i \in DOMAIN d.texts |-> Written(d.texts[i])]) + SumOver(d.scalars)

\* collectStringFields, pickStringField: the largest text, or a content text
\* at least half as large.
Largest(d, S) == {i \in S : \A j \in S : Size(d.texts[i]) >= Size(d.texts[j])}
Picks(d) ==
  LET all == DOMAIN d.texts
      like == {i \in all : /\ d.texts[i].content
                           /\ \A j \in all : Size(d.texts[i]) * 2 >= Size(d.texts[j])}
  IN Largest(d, IF like = {} THEN all ELSE like)

WithText(d, i, t) == [d EXCEPT !.texts[i] = t]
Cuttable(d, i, over) == Size(d.texts[i]) >= MinText /\ over <= Size(d.texts[i]) * 4

\* One text stands for most of the excess: it is cut to what is left, less the
\* slack for returned_size.
CutText(d, i, over) ==
  LET t == d.texts[i] target == Size(t) - over - Slack
  IN WithText(d, i, IF Size(t) > over + Slack + Suffix
                    THEN [t EXCEPT !.body = target, !.tail = Suffix]
                    ELSE [Shortened EXCEPT !.content = t.content])

\* The array keeps its share of the elements.
CutArray(d) ==
  LET keep == (d.count * MaxBytes) \div Bytes(d, returned)
  IN [d EXCEPT !.count = IF keep = 0 THEN 1 ELSE keep]

\* delete rootObj[largestKeyBySize(...)], where no text is left.
Remaining(d) == d.count > 0 \/ d.scalars # <<>>
DropKey(d) ==
  IF d.scalars = <<>> \/ d.count * d.each > d.scalars[1]
  THEN [d EXCEPT !.count = 0] ELSE [d EXCEPT !.scalars = <<>>]

-----------------------------------------------------------------------------
(* Plain text: byteSlice and the marker *)

\* byteSlice of equally wide characters: toString makes one replacement
\* character of 3 bytes of the bytes that are left over, and it is dropped if
\* it does not fit.
Leftover(w, n) == n % w
Broken(w, n) == Leftover(w, n) = 3
Sliced(w, n, total) ==
  IF total <= n THEN total ELSE n - (IF Broken(w, n) THEN 0 ELSE Leftover(w, n))

Marker(total, r) == MarkerFrame + Digits(total) + Digits(r)
PlainSize(w, total, r) ==
  Sliced(w, MaxBytes - Marker(total, r), total) + Marker(total, r)

-----------------------------------------------------------------------------
(* applyGuard *)

Start(d) == stage = "shrink" /\ doc = d /\ returned = 0
Init ==
  /\ pass = 0 /\ sent = 0 /\ broken = FALSE
  /\ \/ /\ \E d \in Documents : Bytes(d, 0) > MaxBytes /\ Start(d)
     \/ /\ stage = "mark" /\ returned = MaxBytes
        /\ \E w \in CharWidths, b \in PlainBytes :
             b > MaxBytes /\ b % w = 0 /\ doc = [width |-> w, bytes |-> b]

Over == Bytes(doc, returned) - MaxBytes

\* Mutant of Shrinking: the passes are not counted.
ShrinkingOn == stage = "shrink" /\ Bytes(doc, returned) > MaxBytes

Shrinking == stage = "shrink" /\ pass < Passes /\ Bytes(doc, returned) > MaxBytes

Shrunk(d) == doc' = d /\ pass' = pass + 1 /\ UNCHANGED <<stage, returned, sent, broken>>
Wide == doc.count > 1

ShrinkText ==
  /\ Shrinking
  /\ \E i \in Picks(doc) : Cuttable(doc, i, Over) /\ Shrunk(CutText(doc, i, Over))

NoneCuttable == \E i \in Picks(doc) : ~Cuttable(doc, i, Over)
ShrinkArray ==
  /\ Shrinking /\ Wide /\ (doc.texts = <<>> \/ NoneCuttable)
  /\ Shrunk(CutArray(doc))

EmptyText ==
  /\ Shrinking /\ ~Wide
  /\ \E i \in Picks(doc) :
       /\ ~Cuttable(doc, i, Over) /\ Size(doc.texts[i]) > Suffix
       /\ Shrunk(WithText(doc, i, [Shortened EXCEPT !.content = doc.texts[i].content]))

ShrinkKeys ==
  /\ Shrinking /\ ~Wide /\ doc.texts = <<>> /\ Remaining(doc)
  /\ Shrunk(DropKey(doc))

\* Nothing can be narrowed any more.
Stuck ==
  /\ ~Wide
  /\ IF doc.texts = <<>> THEN ~Remaining(doc)
     ELSE \E i \in Picks(doc) : ~Cuttable(doc, i, Over) /\ Size(doc.texts[i]) <= Suffix

EndShrinking ==
  /\ stage = "shrink"
  /\ Bytes(doc, returned) <= MaxBytes \/ pass = Passes \/ Stuck
  /\ stage' = "fill" /\ pass' = 0 /\ UNCHANGED <<doc, returned, sent, broken>>

\* Mutant of FillPasses: the first size is believed.
FillOnce == 1

\* returned_size is written into the document, which changes its size.
FillPasses == 4

Unfilled == pass < FillPasses /\ returned # Bytes(doc, returned)
Fill ==
  /\ stage = "fill" /\ Unfilled
  /\ returned' = Bytes(doc, returned) /\ pass' = pass + 1
  /\ UNCHANGED <<stage, doc, sent, broken>>

\* Mutant of TooLarge: the size before returned_size was written counts.
TooLargeBefore == Bytes(doc, 0) > MaxBytes

TooLarge == Bytes(doc, returned) > MaxBytes

Send(n) == stage' = "done" /\ sent' = n /\ UNCHANGED <<pass, doc, broken>>
SendDocument ==
  /\ stage = "fill" /\ ~Unfilled /\ ~TooLarge
  /\ Send(Bytes(doc, returned)) /\ UNCHANGED returned

\* The small document is written before its size is stored.
SendFallback ==
  /\ stage = "fill" /\ ~Unfilled /\ TooLarge
  /\ Send(Fallback + Digits(returned)) /\ UNCHANGED returned

MarkPasses == 8

Settled == pass = MarkPasses \/ PlainSize(doc.width, doc.bytes, returned) = returned
MarkPlain ==
  /\ stage = "mark" /\ ~Settled
  /\ returned' = PlainSize(doc.width, doc.bytes, returned) /\ pass' = pass + 1
  /\ UNCHANGED <<stage, doc, sent, broken>>

SendPlain ==
  /\ stage = "mark" /\ Settled
  /\ stage' = "done" /\ sent' = PlainSize(doc.width, doc.bytes, returned)
  /\ broken' = Broken(doc.width, MaxBytes - Marker(doc.bytes, returned))
  /\ UNCHANGED <<pass, doc, returned>>

Next ==
  \/ ShrinkText \/ ShrinkArray \/ EmptyText \/ ShrinkKeys \/ EndShrinking
  \/ Fill \/ SendDocument \/ SendFallback \/ MarkPlain \/ SendPlain
Spec == Init /\ [][Next]_vars

-----------------------------------------------------------------------------
(* Properties *)

IsDocument == "texts" \in DOMAIN doc
IsFallback == IsDocument /\ stage = "done" /\ sent # Bytes(doc, returned)

\* Types: every loop stays within its passes.
TypeOK ==
  /\ stage \in {"shrink", "fill", "mark", "done"} /\ pass \in Nat
  /\ pass <= (CASE stage = "shrink" -> Passes [] stage = "fill" -> FillPasses
                [] OTHER -> MarkPasses)
  /\ returned \in Nat /\ sent \in Nat /\ broken \in BOOLEAN

\* Whatever the document, what leaves the hub fits the limit (applyGuard), the
\* fallback and the marker with the digits they happen to have included.
WithinBudget == stage = "done" => sent <= MaxBytes

\* A response that was narrowed, and a plain text, states its own size
\* (truncated.returned_size, the marker), although stating it changes it.
StatesItsSize == stage = "done" /\ ~IsFallback => returned = sent

\* guard.test.ts:34 of every truncated document: returned_size is the size of
\* the text that carries it.
AlwaysStatesItsSize == stage = "done" => returned = sent

\* guard.ts:37, :125: the slack covers the digits of returned_size, so a
\* document narrowed below the limit is sent and not replaced by the fallback.
NarrowedIsSent == IsFallback => Bytes(doc, 0) > MaxBytes

\* guard.ts:248, guard.test.ts:63: no character is cut in two.
NoBrokenCharacter == ~broken
=============================================================================
