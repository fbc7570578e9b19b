------------------------------ MODULE MCHosted -------------------------------
(***************************************************************************)
(* A session, the event loop of the page it holds, and what makes a page   *)
(* of an answer, markup with its selectors and the cascade: each on its    *)
(* own.  The session hands the loop over as one flush of its script        *)
(* engine, and parses and styles in one step, so a behaviour is one of one *)
(* of them, chosen by level, and the others never leave their initial      *)
(* states, in which no fair action of them is enabled.                     *)
(***************************************************************************)
EXTENDS Session, PageLoop, Selectors, Cascade

(* Markup that needs every recovery rule, raw text and escapes, and        *)
(* selectors of every kind, some that do not parse.                        *)
Char(c, esc) == [is |-> c, esc |-> esc]
Lex(is, name) == [is |-> is, name |-> name, attrs |-> <<>>, esc |-> 0]
Attr(name, value) == [name |-> name, value |-> value]
MarkupLexemes ==
  {Lex("start", n) : n \in {"p", "button", "li", "td", "tr", "table", "script", "title", "br"}}
  \cup {Lex("end", n) : n \in {"p", "li", "script"}}
  \cup {Lex("text", "w"), Lex("<", ""), [Lex("<", "") EXCEPT !.esc = 1], Lex("comment", ""),
        [Lex("start", "div") EXCEPT !.attrs = <<Attr("id", <<Char("<", 1), Char("text", 0)>>), Attr("id", <<>>),
            Attr("class", <<Char("x", 0), Char(" ", 0), Char("x", 0), Char("-", 0)>>)>>]}
X == <<Char("x", 0)>>
Sel(tag, attr, pseudo) == Compound(tag, <<>>, <<>>, attr, pseudo)
Tag(name) == Sel(name, {}, <<>>)
If(which, ofType, a, b) == Sel("*", {}, <<[kind |-> which, ofType |-> ofType, a |-> a, b |-> b, text |-> <<>>]>>)
SelectorSet ==
  { <<Tag("p"), Space, Tag("button"), Space, Combine(">"), Tag("*")>>,
    <<Tag("br"), Combine("~"), Space, Tag("*"), Space, Comma, Tag("li"), Combine("+"), Tag("p")>>,
    <<If("nth", TRUE, -1, 2), Comma, If("nth-last", FALSE, 2, 1), Space>>,
    <<If("only", TRUE, 0, 0), Comma, If("empty", TRUE, 0, 0), Combine(">"), Tag("*")>>,
    <<If("first", FALSE, 0, 0), Combine("+"), If("last", TRUE, 0, 0)>>,
    <<Sel("*", {}, <<[kind |-> "not", ofType |-> FALSE, a |-> 0, b |-> 0, text |-> <<Tag("p"), Comma, If("root", TRUE, 0, 0)>>]>>)>>,
    <<Compound("*", <<Char("<", 0), Char("text", 0)>>, X, {[name |-> "class", op |-> "$=", value |-> X \o <<Char("-", 0)>>]}, <<>>)>> }
  \cup {<<Sel("*", {[name |-> "class", op |-> op, value |-> X]}, <<>>)>> : op \in {"exists", "=", "~=", "|=", "^=", "*="}}
  \cup {<<>>, <<Tag("p"), Combine("+")>>, <<Comma>>, <<Combine(">")>>, <<Tag("p"), Comma, Tag("p"), Space, Tag("p"), Space, Tag("p")>>}

(* Every sheet of two of these items: rules of every kind of key, a list,  *)
(* shorthands against longhands, !important, media, values that do not     *)
(* parse and a block that does not end.                                    *)
Simple(tag, id, class, attr) == [tag |-> tag, id |-> id, class |-> class, attr |-> attr]
Declares(p, v) == [prop |-> p, value |-> v, important |-> FALSE, custom |-> FALSE]
Insists(p, v) == [prop |-> p, value |-> v, important |-> TRUE, custom |-> FALSE]
RuleFor(sels, body) == [is |-> "rule", selectors |-> sels, body |-> body]
Color(n) == <<Token("color", n)>>
BaseSheet ==
  << RuleFor(<< <<Simple("p", "", <<>>, "")>>, <<Simple("li", "", <<>>, "")>> >>,
             << Declares(<<"display">>, <<Word("block")>>), Declares(<<"margin">>, <<Token("em", 1), Px(0)>>),
                Declares(<<"border", "style">>, <<Word("solid")>>) >>),
     RuleFor(<< <<Simple("", "", <<>>, "hidden")>> >>, << Declares(<<"display">>, <<Word("none")>>) >>) >>
SheetItems ==
  { RuleFor(<< <<Simple("", "", <<"a">>, "")>> >>, << Declares(<<"margin", "left">>, <<Px(3)>>), Declares(<<"color">>, Color(1)) >>),
    RuleFor(<< <<Simple("p", "", <<"a">>, "")>>, <<Simple("", "x", <<"b">>, "")>> >>, << Declares(<<"margin">>, <<Px(1), Px(2), Px(4)>>) >>),
    RuleFor(<< <<Simple("*", "", <<>>, "")>> >>,
            << Insists(<<"color">>, Color(2)), Declares(<<"font">>, <<Word("bold"), Token("em", 2), Word("serif")>>) >>),
    RuleFor(<< <<Simple("li", "", <<>>, ""), Simple("p", "", <<>>, "")>> >>,
            << Declares(<<"color">>, <<Word("bad")>>), Declares(<<"font", "size">>, <<Token("em", 1)>>), Declares(<<"margin">>, <<Word("bad")>>) >>),
    [is |-> "media", words |-> <<"screen">>,
     items |-> << RuleFor(<< <<Simple("", "x", <<>>, "")>> >>,
                          << Insists(<<"margin">>, <<Token("auto", 0)>>), Declares(<<"border">>, <<Px(1), Word("none")>>) >>) >>],
    [is |-> "media", words |-> <<"print">>, items |-> <<>>],
    [is |-> "unterminated"],
    RuleFor(<< <<Simple("p", "", <<>>, "hidden")>> >>,
            << Declares(<<"display">>, <<Word("flex")>>), Declares(<<"flex-direction">>, <<Word("column")>>),
               Declares(<<"color">>, Color(3)), Declares(<<"color">>, <<>>) >>) }
SheetSet == {<<>>} \cup {<<a, b>> : a \in SheetItems, b \in SheetItems}
Styled(tag, id, class, attrs, up, style) == [tag |-> tag, id |-> id, class |-> class, attrs |-> attrs, parent |-> up, style |-> style]
StyledSet ==
  { <<>>,
    << Styled("li", "", <<"a", "b">>, {}, 0, <<>>), Styled("p", "x", <<"b", " ", "a">>, {"hidden"}, 1, <<>>),
       Styled("p", "y", <<"a">>, {}, 2, << Declares(<<"color">>, Color(4)), Declares(<<"margin", "left">>, <<Px(7)>>) >>) >>,
    << Styled("p", "", <<"b", " ", "a">>, {}, 0, <<>>) >> }

VARIABLE level
HostedVars == <<vars, LoopVars, MarkupVars, CascadeVars, level>>

HostedInit ==
  /\ level \in {"session", "loop", "markup", "cascade"}
  /\ (IF level = "cascade" THEN TRUE ELSE csheet = <<>> /\ cpage = <<>>) /\ CascadeInit
  /\ Init /\ LoopInit /\ MarkupInit
  /\ level # "session" => runtime = "engine"

HostedNext ==
  /\ \/ level = "session" /\ Next /\ UNCHANGED <<LoopVars, MarkupVars, CascadeVars>>
     \/ level = "loop" /\ LoopNext /\ UNCHANGED <<vars, MarkupVars, CascadeVars>>
     \/ level = "markup" /\ MarkupNext /\ UNCHANGED <<vars, LoopVars, CascadeVars>>
     \/ level = "cascade" /\ CascadeNext /\ UNCHANGED <<vars, LoopVars, MarkupVars>>
  /\ UNCHANGED level

HostedSpec ==
  HostedInit /\ [][HostedNext]_HostedVars /\ WF_vars(Progress) /\ LoopFairness
=============================================================================
