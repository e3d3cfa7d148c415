------------------------------- MODULE HtmlTree -------------------------------
(***************************************************************************)
(* The tree HtmlProcessor builds (_TreeBuilder, processing/html.py) from   *)
(* the events of HTMLParser, in any order a page may cause them, and the   *)
(* text its nodes give.  Nodes and pieces of text are numbered as they     *)
(* come; attributes are left out.                                          *)
(***************************************************************************)
EXTENDS Naturals, FiniteSets, FiniteSetsExt, Sequences, SequencesExt

CONSTANTS
  Tag,        \* tags, in lower case
  VoidTag,    \* _VOID_TAGS: they have no end tag
  HiddenTag,  \* _HIDDEN_TEXT_TAGS
  MaxNodes,   \* bound: elements of a page
  MaxParts    \* bound: pieces of text of a page

ASSUME HtmlAssumption ==
  VoidTag \subseteq Tag /\ HiddenTag \subseteq Tag /\ MaxNodes \in Nat /\ MaxParts \in Nat

VARIABLES
  nodes,       \* the elements: their tag and parent, 0 for a root
  stack,       \* the open elements
  text_parts,  \* of each piece of text the element it was added to, or 0
  ended        \* history: the elements that an end tag has ended, or that cannot have content

htmlVars == <<nodes, stack, text_parts, ended>>

HtmlTypeOK ==
  /\ nodes \in Seq([tag : Tag, parent : 0..MaxNodes])
  /\ stack \in Seq(DOMAIN nodes) /\ IsInjective(stack)
  /\ text_parts \in Seq(0..Len(nodes))
  /\ ended \subseteq DOMAIN nodes

HtmlInit == nodes = <<>> /\ stack = <<>> /\ text_parts = <<>> /\ ended = {}

-----------------------------------------------------------------------------
(* Events of the parser                                                    *)

Top == IF stack = <<>> THEN 0 ELSE Last(stack)

\* _append_node
AppendNode(tag) ==
  /\ Len(nodes) < MaxNodes
  /\ nodes' = Append(nodes, [tag |-> tag, parent |-> Top])
  /\ UNCHANGED text_parts

\* As HandleStartTag, with _append_node opening the element as well
OpensTwice(tag) ==
  /\ AppendNode(tag)
  /\ stack' = Append(stack, Len(nodes) + 1) \o (IF tag \in VoidTag THEN <<>> ELSE <<Len(nodes) + 1>>)
  /\ UNCHANGED ended

HandleStartTag(tag) ==
  /\ AppendNode(tag)
  /\ IF tag \in VoidTag
     THEN ended' = ended \union {Len(nodes) + 1} /\ UNCHANGED stack
     ELSE stack' = Append(stack, Len(nodes) + 1) /\ UNCHANGED ended

\* <tag/>
HandleStartEndTag(tag) ==
  /\ AppendNode(tag)
  /\ ended' = ended \union {Len(nodes) + 1}
  /\ UNCHANGED stack

\* What an end tag ends: the innermost element of the tag that has not ended,
\* and whatever in it has not.
EndedBy(tag) ==
  LET open == DOMAIN nodes \ ended
      same == {n \in open : nodes[n].tag = tag}
  IN  IF same = {} \/ tag \in VoidTag THEN {} ELSE {n \in open : n >= Max(same)}

\* As HandleEndTag, closing from the outermost element of the tag
CloseOutermost(tag) ==
  LET matching == SelectInSeq(stack, LAMBDA n : nodes[n].tag = tag) IN
  /\ stack' = IF tag \in VoidTag \/ matching = 0 THEN stack ELSE SubSeq(stack, 1, matching - 1)
  /\ ended' = ended \union EndedBy(tag)
  /\ UNCHANGED <<nodes, text_parts>>

HandleEndTag(tag) ==
  LET matching == SelectLastInSeq(stack, LAMBDA n : nodes[n].tag = tag) IN
  /\ stack' = IF tag \in VoidTag \/ matching = 0 THEN stack ELSE SubSeq(stack, 1, matching - 1)
  /\ ended' = ended \union EndedBy(tag)
  /\ UNCHANGED <<nodes, text_parts>>

\* Text outside all elements is dropped.
HandleData ==
  /\ Len(text_parts) < MaxParts
  /\ text_parts' = Append(text_parts, Top)
  /\ UNCHANGED <<nodes, stack, ended>>

HtmlNext ==
  \/ \E tag \in Tag : HandleStartTag(tag) \/ HandleStartEndTag(tag) \/ HandleEndTag(tag)
  \/ HandleData

HtmlSpec == HtmlInit /\ [][HtmlNext]_htmlVars

-----------------------------------------------------------------------------
(* Views                                                                   *)

\* A list to which those of 1..N that are in S were appended, as they came
InOrder(S, N) ==
  LET UpTo[n \in 0..N] ==
        IF n = 0 THEN <<>> ELSE IF n \in S THEN Append(UpTo[n - 1], n) ELSE UpTo[n - 1]
  IN  UpTo[N]

PartsOf(n) == InOrder({i \in DOMAIN text_parts : text_parts[i] = n}, Len(text_parts))

Children(n) == InOrder({m \in DOMAIN nodes : nodes[m].parent = n}, Len(nodes))

\* As IterNodes, an element's children before what is inside them
IterByLevel ==
  LET Below[n \in 0..Len(nodes)] ==
        Children(n) \o FlattenSeq([i \in DOMAIN Children(n) |-> Below[Children(n)[i]]])
  IN  Below[0]

\* iter_nodes, which find and find_all go through
IterNodes ==
  LET Below[n \in 0..Len(nodes)] ==
        FlattenSeq([i \in DOMAIN Children(n) |-> <<Children(n)[i]>> \o Below[Children(n)[i]]])
  IN  Below[0]

\* As NodeText, asking of a root alone whether it is hidden
NodeTextOfRoot(n, hidden) ==
  LET Collect[m \in DOMAIN nodes] ==
        IF ~hidden /\ nodes[m].tag \in HiddenTag /\ nodes[m].parent = 0 THEN <<>>
        ELSE PartsOf(m) \o FlattenSeq([i \in DOMAIN Children(m) |-> Collect[Children(m)[i]]])
  IN  Collect[n]

\* text() of an element: its own text before its children's.
NodeText(n, hidden) ==
  LET Collect[m \in DOMAIN nodes] ==
        IF ~hidden /\ nodes[m].tag \in HiddenTag THEN <<>>
        ELSE PartsOf(m) \o FlattenSeq([i \in DOMAIN Children(m) |-> Collect[Children(m)[i]]])
  IN  Collect[n]

\* text() of a document: of each root
DocumentText(hidden) ==
  FlattenSeq([i \in DOMAIN Children(0) |-> NodeText(Children(0)[i], hidden)])

-----------------------------------------------------------------------------
(* Properties                                                              *)

\* The elements something is inside of, itself included
Around(n) ==
  LET Up[m \in 0..Len(nodes)] == IF m = 0 THEN {} ELSE {m} \union Up[nodes[m].parent]
  IN  Up[n]

(***************************************************************************)
(* However badly the tags nest, an element is open from its start tag to   *)
(* the end tag that ends it or an element around it: nothing later becomes *)
(* a part of it, and nothing inside an open element gets out of it.        *)
(***************************************************************************)
OpenUntilEnded ==
  /\ ToSet(stack) = DOMAIN nodes \ ended
  /\ Around(Top) = ToSet(stack)

(***************************************************************************)
(* find_all gives elements in the order of their start tags in the page,   *)
(* find the first of them, whatever was closed in between.                 *)
(***************************************************************************)
FoundInDocumentOrder == IterNodes = [n \in DOMAIN nodes |-> n]

(***************************************************************************)
(* text() gives every piece of text inside an element once, and without    *)
(* hidden text all but those anywhere inside a hidden element.             *)
(***************************************************************************)
TextIsComplete ==
  \A hidden \in BOOLEAN :
    /\ IsInjective(DocumentText(hidden))
    /\ ToSet(DocumentText(hidden)) =
         {i \in DOMAIN text_parts :
            /\ text_parts[i] # 0
            /\ hidden \/ \A n \in Around(text_parts[i]) : nodes[n].tag \notin HiddenTag}

(***************************************************************************)
(* The tree of a page, after every tag of it, is the one its tags describe. *)
(***************************************************************************)
TreeFollowsTags ==
  /\ OpenUntilEnded
  /\ FoundInDocumentOrder
  /\ TextIsComplete
=============================================================================
