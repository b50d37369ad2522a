------------------------------- MODULE Chunking -------------------------------
(***************************************************************************)
(* chunk_markdown: a document becomes sections at its "##" headings, and a *)
(* section above the token limit becomes groups of paragraphs.             *)
(*                                                                         *)
(* A document is a sequence of lines [kind, size]: a heading, a line of    *)
(* backticks or of tildes that opens or closes a fence, a blank line, or   *)
(* text of size characters.  The body of a chunk is the sequence of the    *)
(* numbers of its lines; its title is the number of the heading, or 0.     *)
(***************************************************************************)
EXTENDS Naturals, SequencesExt, FiniteSetsExt

Kinds == {"text", "blank", "head", "tick", "tilde"}

\* The fence that is open after a line; only the character that opened it closes it.
Fence(open, kind) ==
    CASE kind \notin {"tick", "tilde"} -> open
      [] kind \in {"tick", "tilde"} /\ open = "none" -> kind
      [] kind \in {"tick", "tilde"} /\ open # "none" -> IF open = kind THEN "none" ELSE open

\* est_tokens of lines joined by line feeds, for text without CJK characters.
SizeOf(doc, body) == FoldLeft(LAMBDA n, i : n + doc[i].size, 0, body)
Tokens(doc, body) == (IF body = <<>> THEN 0 ELSE SizeOf(doc, body) + Len(body) - 1 + 3) \div 4

\* str.strip on the joined lines.
Stripped(doc, body) ==
    LET inked == {i \in DOMAIN body : doc[body[i]].kind # "blank"}
    IN  IF inked = {} THEN <<>> ELSE SubSeq(body, Min(inked), Max(inked))
-----------------------------------------------------------------------------
(* Sections.                                                               *)

\* A preamble without content is no chunk, a named section always is one.
Flushed(doc, s) ==
    LET body == Stripped(doc, s.body)
    IN  IF s.title # 0 \/ body # <<>> THEN Append(s.chunks, [title |-> s.title, body |-> body])
        ELSE s.chunks

\* What has been read: the chunks so far, and the title, body and fence of the last.
Sectioning(chunks, title, body, fence) ==
    [chunks |-> chunks, title |-> title, body |-> body, fence |-> fence]

\* A heading outside a fence ends a section.
AddLine(doc, s, i) ==
    IF doc[i].kind = "head" /\ s.fence = "none"
    THEN Sectioning(Flushed(doc, s), i, <<>>, s.fence)
    ELSE Sectioning(s.chunks, s.title, Append(s.body, i), Fence(s.fence, doc[i].kind))

AllLines(doc) ==
    FoldLeftDomain(LAMBDA s, i : AddLine(doc, s, i), Sectioning(<<>>, 0, <<>>, "none"), doc)

Sections(doc) ==
    LET all == Flushed(doc, AllLines(doc))
    IN  IF all = <<>> THEN <<[title |-> 0, body |-> <<>>]>> ELSE all
-----------------------------------------------------------------------------
(* Groups of paragraphs.                                                   *)

\* What has been split: the paragraphs so far, and the lines and the fence of the last.
Splitting(all, current, fence) == [all |-> all, current |-> current, fence |-> fence]

\* Blank lines end a paragraph, except in a fence.
SplitLine(doc, s, i) ==
    LET blank == doc[i].kind = "blank" /\ s.fence = "none"
    IN  CASE ~blank -> Splitting(s.all, Append(s.current, i), Fence(s.fence, doc[i].kind))
          [] blank /\ s.current = <<>> -> s
          [] blank /\ s.current # <<>> -> Splitting(Append(s.all, s.current), <<>>, s.fence)

\* The last of several, unless it is empty.
Closed(all, last) == IF last = <<>> THEN all ELSE Append(all, last)

Split(doc, body) ==
    FoldLeft(LAMBDA s, i : SplitLine(doc, s, i), Splitting(<<>>, <<>>, "none"), body)

Paragraphs(doc, body) == Closed(Split(doc, body).all, Split(doc, body).current)

\* What has been gathered: the groups so far, and the paragraphs and tokens of the last.
Gathering(all, group, tokens) == [all |-> all, group |-> group, tokens |-> tokens]

\* Mutant: a group closes once it is full, after the paragraph that fills it.
AddParagraphLate(doc, s, p, maxTokens) ==
    IF s.group # <<>> /\ s.tokens > maxTokens
    THEN Gathering(Append(s.all, s.group), <<p>>, Tokens(doc, p))
    ELSE Gathering(s.all, Append(s.group, p), s.tokens + Tokens(doc, p))

\* A group takes paragraphs while their tokens, without what joins them, fit.
AddParagraph(doc, s, p, maxTokens) ==
    IF s.group # <<>> /\ s.tokens + Tokens(doc, p) > maxTokens
    THEN Gathering(Append(s.all, s.group), <<p>>, Tokens(doc, p))
    ELSE Gathering(s.all, Append(s.group, p), s.tokens + Tokens(doc, p))

Gathered(doc, paragraphs, maxTokens) ==
    FoldLeft(LAMBDA s, p : AddParagraph(doc, s, p, maxTokens), Gathering(<<>>, <<>>, 0), paragraphs)

Groups(doc, body, maxTokens) ==
    LET end == Gathered(doc, Paragraphs(doc, body), maxTokens)
    IN  Closed(end.all, end.group)

\* A section that fits, or makes one group, stays as it is; part and of number the rest.
Parts(doc, section, maxTokens) ==
    LET whole == <<[title |-> section.title, part |-> 1, of |-> 1, paragraphs |-> <<section.body>>]>>
        groups == Groups(doc, section.body, maxTokens)
    IN  IF maxTokens = 0 \/ Tokens(doc, section.body) <= maxTokens \/ Len(groups) < 2 THEN whole
        ELSE [n \in DOMAIN groups |-> [title |-> section.title, part |-> n, of |-> Len(groups),
                                       paragraphs |-> groups[n]]]

ChunkMarkdown(doc, maxTokens) ==
    LET sections == Sections(doc)
    IN  FlattenSeq([n \in DOMAIN sections |-> Parts(doc, sections[n], maxTokens)])
-----------------------------------------------------------------------------
(* What the chunks of a document must be.                                  *)

LinesOf(chunk) == FlattenSeq(chunk.paragraphs)

\* Line i lies after a line that opens a fence, up to the line that closes it.
InFence(doc, i) ==
    LET inside[n \in 1..i] ==
          \E o \in 1..(n - 1) : /\ doc[o].kind \in {"tick", "tilde"} /\ ~inside[o]
                                /\ \A j \in (o + 1)..(n - 1) : doc[j].kind # doc[o].kind
    IN  inside[i]

\* A heading is the title of what follows it.
Told(chunk) ==
    IF chunk.title # 0 /\ chunk.part = 1 THEN <<chunk.title>> \o LinesOf(chunk) ELSE LinesOf(chunk)

\* Lines in order, none twice, and every one with content.
Covered(doc, chunks) ==
    /\ \A m, n \in DOMAIN chunks :
         \A i \in DOMAIN Told(chunks[m]), j \in DOMAIN Told(chunks[n]) :
           m < n \/ (m = n /\ i < j) => Told(chunks[m])[i] < Told(chunks[n])[j]
    /\ \A i \in DOMAIN doc : doc[i].kind # "blank" => \E n \in DOMAIN chunks : i \in ToSet(Told(chunks[n]))

\* No chunk and no title starts within a fence.
FencesWhole(doc, chunks) ==
    \A n \in DOMAIN chunks :
        /\ chunks[n].title # 0 => ~InFence(doc, chunks[n].title)
        /\ LinesOf(chunks[n]) # <<>> => ~InFence(doc, LinesOf(chunks[n])[1])

TokensOf(doc, paragraphs) == FoldLeft(LAMBDA t, p : t + Tokens(doc, p), 0, paragraphs)

\* What exceeds the limit is one paragraph, or paragraphs that fit without what joins them.
WithinLimit(doc, chunks, maxTokens) ==
    \A n \in DOMAIN chunks :
        LET c == chunks[n]
            paragraphs == IF c.of = 1 THEN Paragraphs(doc, LinesOf(c)) ELSE c.paragraphs
        IN  \/ maxTokens = 0 \/ Len(paragraphs) <= 1
            \/ c.of = 1 /\ Tokens(doc, LinesOf(c)) <= maxTokens
            \/ TokensOf(doc, paragraphs) <= maxTokens
=============================================================================
