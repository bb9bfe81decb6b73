----------------------------- MODULE PageReading -----------------------------
(***************************************************************************)
(* How the extractor reads a page: the parser that follows the tags, the   *)
(* filter of the blocks, the choice between the text of the JSON-LD, of    *)
(* the page and of the optional extractor, the quality of the result, and  *)
(* the claims that are taken from the text.                                *)
(*                                                                         *)
(* A page is a sequence of tokens [kind, tag, marked, ld, text]: kind is   *)
(* "open", "close" or "text"; marked says that the class, the id or        *)
(* another attribute names a widget to skip, for the publisher's policy;   *)
(* ld that a script holds JSON-LD.  A text is a sequence of sentences.     *)
(***************************************************************************)
EXTENDS Integers, Sequences, FiniteSets, SequencesExt

CONSTANTS
  Boilerplate,  \* sentences with a phrase of _LOW_VALUE_PHRASES or of the policy
  Paywalled,    \* sentences with a phrase of _PAYWALL_OR_ACCOUNT_PHRASES or of the policy
  Fragments,    \* short texts without a final ".", "!", "?" or quote
  Claimlike,    \* sentences that are claim candidates
  WordCount,    \* the words of a sentence
  LongBody,     \* the sentences that 200 characters hold
  MaxClaims     \* max_claims, 25

ASSUME PageBounds == LongBody \in Nat /\ MaxClaims \in Nat \ {0} /\ WordCount \in Nat \ {0}

SkipTags ==
  {"script", "style", "noscript", "svg", "canvas", "iframe", "nav", "header", "footer",
   "aside", "form", "button", "select", "textarea"}

BlockTags == {"p", "li", "blockquote", "h1", "h2", "h3", "h4", "h5", "h6"}

NeverSkipped == {"article", "main", "body", "html"}

(***************************************************************************)
(* _ArticleHTMLParser                                                      *)
(***************************************************************************)

\* _skip_stack, whose length is _skip_depth, _block_stack, blocks, _in_title, title_parts,
\* _capture_json_ld, _script_parts and json_ld_scripts.
FreshReader ==
  [skips |-> <<>>, open |-> <<>>, blocks |-> <<>>, inTitle |-> FALSE, title |-> <<>>,
   capturing |-> FALSE, script |-> <<>>, scripts |-> <<>>]

Skips(t) == t.tag \in SkipTags \/ (t.marked /\ t.tag \notin NeverSkipped)

NoteStart(s, t) ==
  [s EXCEPT !.inTitle = @ \/ t.tag = "title",
            !.capturing = @ \/ (t.tag = "script" /\ t.ld),
            !.script = IF t.tag = "script" /\ t.ld THEN <<>> ELSE @]

StartTag(s, t) ==
  LET noted == NoteStart(s, t) IN
  CASE Skips(t) -> [noted EXCEPT !.skips = Append(@, t.tag)]
    [] ~Skips(t) /\ s.skips = <<>> /\ t.tag \in BlockTags ->
         [noted EXCEPT !.open = Append(@, [tag |-> t.tag, pieces |-> <<>>])]
    [] OTHER -> noted

NoteEnd(s, t) ==
  LET ends == t.tag = "script" /\ s.capturing IN
  [s EXCEPT !.inTitle = @ /\ t.tag # "title",
            !.capturing = @ /\ ~ends,
            !.scripts = IF ends /\ s.script # <<>> THEN Append(@, s.script) ELSE @,
            !.script = IF ends THEN <<>> ELSE @]

\* The innermost element of a tag, or 0.
Innermost(tags, tag) == Max({i \in DOMAIN tags : tags[i] = tag} \cup {0})

EndsAllSkips(s, tag) == [s EXCEPT !.skips = <<>>]

\* The end of a skipped region, of those that were never ended inside it, and of
\* whatever element has the same name.
EndSkip(s, tag) ==
  [s EXCEPT !.skips = SubSeq(@, 1, Innermost(@, tag) - 1)]

\* The text of a block goes to the blocks of the page and to the block around it.
EndBlock(s, tag) ==
  LET i == Innermost([n \in DOMAIN s.open |-> s.open[n].tag], tag)
      text == s.open[i].pieces
      rest == RemoveAt(s.open, i)
  IN IF i = 0 THEN s
     ELSE IF text = <<>> THEN [s EXCEPT !.open = rest]
     ELSE [s EXCEPT !.blocks = Append(@, text),
                    !.open = IF rest = <<>> THEN <<>>
                             ELSE [rest EXCEPT ![Len(rest)].pieces = @ \o text]]

EndTag(s, t) ==
  LET noted == NoteEnd(s, t) IN
  CASE t.tag \in Range(s.skips) -> EndSkip(noted, t.tag)
    [] t.tag \notin Range(s.skips) /\ t.tag \in BlockTags -> EndBlock(noted, t.tag)
    [] OTHER -> noted

Data(s, t) ==
  CASE s.capturing -> [s EXCEPT !.script = @ \o t.text]
    [] ~s.capturing /\ s.inTitle -> [s EXCEPT !.title = @ \o t.text]
    [] ~s.capturing /\ ~s.inTitle /\ s.skips = <<>> /\ s.open # <<>> ->
         [s EXCEPT !.open[Len(s.open)].pieces = @ \o t.text]
    [] OTHER -> s

Read(s, t) ==
  CASE t.kind = "open" -> StartTag(s, t)
    [] t.kind = "close" -> EndTag(s, t)
    [] t.kind = "text" -> Data(s, t)

(***************************************************************************)
(* _extract_paragraph_text: the blocks that are kept.  A block that equals *)
(* a kept one, holds boilerplate or is short and ends no sentence is not.  *)
(***************************************************************************)
IsBoilerplate(block) == Range(block) \cap Boilerplate # {}

IsShort(block) == Len(block) = 1 /\ block[1] \in Fragments

AcceptedTwice(blocks) ==
  SelectSeq(blocks, LAMBDA b : ~IsBoilerplate(b) /\ ~IsShort(b))

Accepted(blocks) ==
  LET step(kept, block) ==
        IF block \in Range(kept) \/ IsBoilerplate(block) \/ IsShort(block)
        THEN kept ELSE Append(kept, block)
  IN FoldLeft(step, <<>>, blocks)

\* The paragraphs of a text, one after another.
Joined(paragraphs) ==
  LET step(text, paragraph) == text \o paragraph
  IN FoldLeft(step, <<>>, paragraphs)

(***************************************************************************)
(* The choice of the text.  A JSON-LD object is [article, body, headline], *)
(* and its body, whose white space is collapsed, is one paragraph; what    *)
(* the optional extractor found is a sequence of paragraphs, or <<>>.      *)
(***************************************************************************)
Words(text) == WordCount * Len(text)

\* _select_article_json_ld: the first of the longest articles.
ArticleObject(objects) ==
  LET size(o) == Len(o.body) + Len(o.headline)
      articles == {i \in DOMAIN objects : objects[i].article}
      longest == {i \in articles : \A j \in articles : size(objects[j]) <= size(objects[i])}
  IN IF articles = {} THEN <<>> ELSE <<objects[Min(longest)]>>

\* _extraction_quality_score, in hundredths of a percent.
Quality(text, accepted, rejected, hasArticle) ==
  IF text = <<>> THEN 0
  ELSE Min({3500, 10 * Words(text)}) + Min({2500, 1000 * accepted})
       + (IF hasArticle THEN 1500 ELSE 0)
       + (IF accepted + rejected = 0 THEN 1000
          ELSE (2500 * accepted) \div (accepted + rejected))

\* round() of a half goes to the even number.
RoundHundredths(n) ==
  LET whole == n \div 100
      part == n % 100
  IN IF part > 50 \/ (part = 50 /\ whole % 2 = 1) THEN whole + 1 ELSE whole

\* _should_use_optional_extraction
UseOptional(text, quality, other) ==
  \/ text = <<>>
  \/ quality < 5500 /\ Words(other) >= Words(text)
  \/ Words(other) >= RoundHundredths(135 * Words(text))

\* extract_article_html: the text and its quality.
Extract(s, objects, optional) ==
  LET article == ArticleObject(objects)
      kept == Accepted(s.blocks)
      rejected == Len(s.blocks) - Len(kept)
      visible == Joined(kept)
      quality == Quality(visible, Len(kept), rejected, article # <<>>)
      result(text, blocks, refused) ==
        [text |-> text, quality |-> Quality(text, blocks, refused, article # <<>>)]
  IN CASE article # <<>> /\ Len(article[1].body) >= LongBody -> result(article[1].body, 1, 0)
       [] OTHER ->
            IF optional # <<>> /\ UseOptional(visible, quality, Joined(optional))
            THEN result(Joined(optional), Len(optional), rejected)
            ELSE result(visible, Len(kept), rejected)

\* The warnings of _FATAL_EXTRACTION_WARNINGS; raw says that the page names a paywall.
IsFatal(extracted, raw) ==
  \/ extracted.text = <<>>
  \/ Range(extracted.text) \cap Paywalled # {}
  \/ raw /\ Words(extracted.text) < 300
  \/ extracted.quality < 4500

(***************************************************************************)
(* extract_claims: a fragment has no end, and runs into the next sentence. *)
(***************************************************************************)
Sentences(text) ==
  LET step(s, piece) ==
        IF piece \in Fragments THEN [s EXCEPT !.begun = Append(@, piece)]
        ELSE [done |-> Append(s.done, Append(s.begun, piece)), begun |-> <<>>]
      read == FoldLeft(step, [done |-> <<>>, begun |-> <<>>], text)
  IN IF read.begun = <<>> THEN read.done ELSE Append(read.done, read.begun)

Claims(text) ==
  LET step(claims, s) == IF Range(s) \cap Claimlike = {} THEN claims ELSE Append(claims, s)
      claims == FoldLeft(step, <<>>, Sentences(text))
  IN SubSeq(claims, 1, Min({Len(claims), MaxClaims}))

\* Claims of one version that the constraint article_version_claim refuses.
HasTwins(claims) == ~IsInjective(claims)
=============================================================================
