------------------------------- MODULE MCMain -------------------------------
(***************************************************************************)
(* Main.tla with every command line of three flags, three runs that write  *)
(* the same files, and one or two servers with up to three clients.        *)
(***************************************************************************)
EXTENDS MainProperties

Line(first, flags) == [first |-> first, flags |-> flags]
Flag(name, value) == [flag |-> name, value |-> value]
MCSplit == [w \in {"a0=1", "a1=2", "zero=1", "a0=x"} |->
    CASE w = "a0=1"   -> [name |-> "a0", value |-> "1"]
      [] w = "a1=2"   -> [name |-> "a1", value |-> "2"]
      [] w = "zero=1" -> [name |-> "zero", value |-> "1"]
      [] w = "a0=x"   -> [name |-> "a0", value |-> "x"]]

ResultFlags ==
    {Flag("--result-kind", {"scalar"}), Flag("--result-kind", {"array"}),
     Flag("--result-register", {"a1"}), Flag("--result-ptr-register", {"a1"}),
     Flag("--result-length-register", {"a0"}), Flag("--result-elem-width", {"1"}),
     Flag("--result-unsigned", {})}

OtherFlags ==
    {Flag("--result-kind", {"list"}), Flag("--result-register", {"x"}),
     Flag("--result-elem-width", {}), Flag("--max-steps", {"5"}), Flag("--max-steps", {"x"}),
     Flag("--reg", {"a0=1"}), Flag("--reg", {"a1=2"}),
     Flag("--reg", {"zero=1"}), Flag("--reg", {"a0=x"}),
     Flag("--asm-out", {"other"}), Flag("--help", {})}

FlagLines ==
    {Line("absent.s", fs) : fs \in SeqOf(ResultFlags, 4) \cup SeqOf(ResultFlags \cup OtherFlags, 3)}

MCProgram == [input \in {"t.s", "dir/t.s", "bad.s", "div.s", "absent.s"} |->
    CASE input = "bad.s" -> "err" [] input = "div.s" -> "panic"
      [] input = "absent.s" -> "missing" [] OTHER -> "ok"]

MCStem == [input \in DOMAIN MCProgram |->
    [asm |-> "t.asm", trace |-> "t.trace", analysis |-> "t.analysis", result |-> "t.result"]]

\* A command line with the same outputs in its flags, and one with others.
Same  == Line("t.s", <<Flag("--asm-out", {"other"}), Flag("--asm-out", {"t.asm"})>>)
Other == Line("t.s", <<Flag("--asm-out", {"other"})>>)

FileLines ==
    {<<Line("t.s", <<>>), Line("dir/t.s", <<>>), Same>>,
     <<Line("t.s", <<>>), Line("bad.s", <<>>), Line("div.s", <<>>)>>,
     <<Line("t.s", <<>>), Other>>}

Serving == Line("serve", <<>>)
ServerLines == {<<Serving, Serving>>}
PortLines ==
    {<<Line("serve", <<Flag("--port", {"80"})>>), Serving>>,
     <<Line("serve", <<Flag("--port", {"x"})>>), Line("serve", <<Flag("--host", {"80"})>>)>>}

Api(size, name, result, outcome) ==
    [size |-> size, inputs |-> <<[name |-> name, value |-> "1"]>>, result |-> result,
     outcome |-> outcome]
Scalar(r) == {[kind |-> "scalar", register |-> r]}
Array(p)  == {[kind |-> "array", ptr_register |-> p, length_register |-> {},
               elem_width |-> {"1"}, signed |-> {}]}

Request(path, head, length, body, api) ==
    [path |-> path, head |-> head, length |-> length, body |-> body, api |-> api]

Runs(length, body) == Request("run", 2, length, body, {Api(2, "a0", Scalar({"a1"}), "run")})

Requests ==
    {Runs({2}, 2), Runs({1}, 2), Runs({3}, 2), Runs({}, 2), Runs({-1}, 2), Runs({2}, 3),
     Runs({1}, 1),
     Request("run", 2, {2}, 2, {Api(2, "a0", Array({}), "error")}),
     Request("run", 2, {2}, 2, {Api(2, "zero", {}, "run")}),
     Request("run", 2, {2}, 2, {Api(2, "a0", Array({"x"}), "run")}),
     Request("run", 2, {2}, 2, {}),
     Request("index", 2, {}, 0, {}), Request("other", 2, {0}, 0, {}),
     Request("none", 2, {}, 0, {})}

Panicking == Request("run", 1, {1}, 1, {Api(1, "a0", {}, "panic")})
Short     == Request("run", 1, {1}, 1, {Api(1, "a0", {}, "run")})
Page      == Request("index", 1, {}, 0, {})

MCScenarios ==
    {[lines |-> <<l>>, requests |-> <<>>] : l \in FlagLines} \cup
    {[lines |-> l, requests |-> <<>>] : l \in FileLines} \cup
    {[lines |-> <<Serving>>, requests |-> <<r, Runs({2}, 2)>>] : r \in Requests} \cup
    {[lines |-> l, requests |-> <<Page>>] : l \in PortLines} \cup
    {[lines |-> l, requests |-> <<Panicking, Page>>] : l \in ServerLines} \cup
    {[lines |-> <<Serving>>, requests |-> <<Short, Page, Short>>]}
=============================================================================
