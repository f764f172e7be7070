----------------------------- MODULE MCRpcProcess -----------------------------
(***************************************************************************)
(* Calls that differ from a good one in one place, with nothing on stdin,  *)
(* and the good one with streams of a few commands: "e" is a character of  *)
(* two bytes.                                                              *)
(***************************************************************************)
EXTENDS RpcProcess

MCWidth == [c \in {"p", "m", "s", "c", "q", "x", "LF", "CR", "FFFD"} |-> 1] @@ [c \in {"e"} |-> 2]

MCCommand == <<"p">> :> "prompt" @@ <<"m", "e">> :> "set_model" @@ <<"s">> :> "steer" @@ <<"c">> :> "compact"
             @@ <<"q">> :> "shutdown"

MCJson == DOMAIN MCCommand

Bytes(text) ==
  FlattenSeq([n \in DOMAIN text |-> [b \in 1 .. MCWidth[text[n]] |-> <<text[n], b>>]])

Streams ==
  {<<>>, <<"p", "LF", "m", "e", "LF">>, <<"m", "e", "CR", "LF", "LF", "x", "LF", "p">>,
   <<"s", "LF", "p", "LF", "p", "CR", "LF", "q">>, <<"p", "LF", "c">>, <<"p", "LF", "m", "e">>}
-----------------------------------------------------------------------------
Tree(a, o) == Object(("a" :> a) @@ ("o" :> o))
Inner(x) == Object("x" :> x)

Defaults == Tree(Leaf(1), Object(("x" :> Leaf(1)) @@ ("y" :> Leaf(1))))

\* Settings a reference can give.
Settings ==
  {Object(<<>>), Object("a" :> Leaf(2)), Object("b" :> Leaf(2)), Object("o" :> Leaf(2)),
   Object("a" :> Inner(Leaf(2))), Object("o" :> Inner(Leaf(2))), Object("o" :> Inner(Inner(Leaf(2)))),
   Tree(Leaf(2), Object(<<>>)), Tree(Leaf(2), Object("y" :> Leaf(2)))}

Configurations == {DeepMerge(Defaults, s) : s \in Settings} \cup Settings
       \cup {Object(s.fields @@ Defaults.fields) : s \in Settings}

NewTemplate(name, valid, builds) ==
  [name |-> name, defaults |-> Defaults, valid |-> valid, builds |-> builds]

Good == NewTemplate("good", Configurations, TRUE)
Strict == NewTemplate("strict", {Defaults}, TRUE)
Broken == NewTemplate("broken", Configurations, FALSE)

MCRegistry == [kind \in Kinds \cup {"extension"} |-> [name \in {"good", "strict"} |->
                 IF name = "good" THEN Good ELSE Strict]]

Dir == <<"home">>
MCModules ==
  [from |-> "/", name |-> <<"home", "t">>] :> [export |-> "template", template |-> Good]
  @@ [from |-> "/", name |-> <<"b">>] :> [export |-> "template", template |-> Broken]
  @@ [from |-> "", name |-> <<"pkg">>] :> [export |-> "other"]

Ref(name, filepath, config) ==
  [type |-> "object", name |-> name, filepath |-> filepath, config |-> config]
Named(name, config) == Ref(name, None, config)
Path(from, name) == Ref(None, [from |-> from, name |-> <<name>>], None)
NoObject == [type |-> "other"]
AnArray == [type |-> "array"]

GoodRef == Named("good", None)

References ==
  {Named("good", s) : s \in Settings} \cup {Named("strict", s) : s \in Settings}
  \cup {Named("good", Leaf(1)), Named("unknown", None), Named("", None), Ref(None, None, None),
        Ref("good", [from |-> ".", name |-> <<"t">>], None),
        Ref("", [from |-> ".", name |-> <<"t">>], None),
        Path(".", "t"), Path("/", "b"), Path("", "pkg"), Path(".", "none"), NoObject, AnArray}

Extensions == {<<>>, <<GoodRef, Path("/", "b"), Path(".", "t")>>, <<Named("unknown", None), GoodRef>>,
               <<NoObject, GoodRef>>, <<AnArray, GoodRef>>,
               <<GoodRef, Named("", None)>>, <<Ref(None, None, None)>>, None}
-----------------------------------------------------------------------------
Base ==
  ("environment" :> GoodRef) @@ ("session-manager" :> GoodRef) @@ ("auth-storage" :> GoodRef)
  @@ ("system-prompt" :> "s") @@ ("provider" :> "p") @@ ("model" :> "m")
  @@ ("thinking-level" :> "off") @@ ("agent-options" :> Object(<<>>)) @@ ("extensions" :> <<GoodRef>>)

Contents ==
  {Object([Base EXCEPT ![kind] = ref]) : kind \in Kinds, ref \in References}
  \cup {Object([Base EXCEPT !["extensions"] = refs]) : refs \in Extensions}
  \cup {Object([Base EXCEPT ![k] = v]) : k \in {"system-prompt", "provider", "model", "thinking-level"},
                                         v \in {"", None, "other"}}
  \cup {Object([Base EXCEPT !["agent-options"] = Leaf(1)])}
  \cup {Object([k \in RequiredKeys \ {missing} |-> Base[k]]) : missing \in RequiredKeys}
  \cup {Leaf(1)}

File(content) == [readable |-> TRUE, format |-> "json", parses |-> TRUE, content |-> content]

MCModels == {<<"p", "m">>}

GoodFile == File(Object(Base))

ConfigFiles ==
  {File(content) : content \in Contents}
  \cup {[GoodFile EXCEPT !.readable = FALSE], [GoodFile EXCEPT !.parses = FALSE],
        [GoodFile EXCEPT !.format = "yaml"], [GoodFile EXCEPT !.format = "toml"]}

Run == [command |-> "run", odd |-> FALSE, config |-> TRUE, mode |-> None]

ArgumentLists ==
  {Run, [Run EXCEPT !.mode = "rpc"], [Run EXCEPT !.mode = "http"], [Run EXCEPT !.odd = TRUE],
   [Run EXCEPT !.config = FALSE]}
  \cup {[Run EXCEPT !.command = c] : c \in {"none", "help", "version", "start"}}

MCStarts ==
  {[args |-> a, file |-> GoodFile, stdin |-> <<>>] : a \in ArgumentLists}
  \cup {[args |-> Run, file |-> f, stdin |-> <<>>] : f \in ConfigFiles}
  \cup {[args |-> Run, file |-> GoodFile, stdin |-> Bytes(s)] : s \in Streams}
  \cup {[args |-> Run, file |-> GoodFile, stdin |-> Front(Bytes(<<"p", "LF", "m", "e">>))]}

\* The models are interchangeable.
Symmetric == Permutations(ModelNames)
=============================================================================
