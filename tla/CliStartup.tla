------------------------------ MODULE CliStartup ------------------------------
(***************************************************************************)
(* The command line: arguments, configuration file, the three components   *)
(* it names, the model, the extensions, and the session that is served     *)
(* over stdin and stdout.  Whatever goes wrong before ends the process,    *)
(* but for an extension that cannot be loaded.                             *)
(*                                                                         *)
(* A configuration is a tree: a leaf (a scalar, a list, null) or an object *)
(* of trees.  What a message says of an error is left out.                 *)
(***************************************************************************)
EXTENDS Integers, SequencesExt

CONSTANTS
  Starts,    \* the calls of the command: arguments, configuration file, and what comes on stdin
  Registry,  \* for each kind of component the templates that are registered, by name
  Modules,   \* what importing a path or a package gives: a template, or why there is none
  ConfigDir, \* the directory of the configuration file
  Models,    \* the models known, as pairs of a provider and an id
  Levels,    \* VALID_THINKING_LEVELS
  MaxDepth,  \* bound: how deep objects are nested in a configuration
  None       \* what is absent


VARIABLES
  start,     \* the call: one of Starts
  at,        \* what main does next, "serving", or "exited"
  built,     \* the components built: for each kind its template and its configuration
  loaded,    \* the extensions built
  tried,     \* how many references to extensions were resolved
  exitCode,  \* of the process, None while it runs
  runner     \* the extensions the session's runner has loaded

startVars == <<start, at, built, loaded, tried, exitCode, runner>>

Kinds == {"environment", "session-manager", "auth-storage"}

InitStart ==
  /\ start \in Starts
  /\ at = "arguments"
  /\ built = [kind \in Kinds |-> None]
  /\ loaded = <<>> /\ tried = 0
  /\ exitCode = None
  /\ runner = <<>>

Exit(code) == at' = "exited" /\ exitCode' = code

Proceed(step) == at' = step /\ UNCHANGED exitCode
-----------------------------------------------------------------------------
(* The configuration of a component *)

Leaf(value) == [leaf |-> value]
Object(fields) == [fields |-> fields]
IsObject(tree) == "fields" \in DOMAIN tree

\* Mutant: an object in the source replaces the target's.
DeepMergeMutant(target, source) ==
  IF IsObject(target) /\ IsObject(source) THEN Object(source.fields @@ target.fields) ELSE source

\* The trees in a tree, each with the keys that lead to it, by how deep they are.
Nodes(tree) ==
  LET level[d \in 0 .. MaxDepth] ==
        IF d = 0 THEN {<< <<>>, tree >>}
        ELSE UNION {{<<Append(n[1], k), n[2].fields[k]>> : k \in DOMAIN n[2].fields} :
                      n \in {m \in level[d - 1] : IsObject(m[2])}}
  IN  level

SubTrees(tree) == UNION {{n[2] : n \in level} : level \in Range(Nodes(tree))}

DeepMerge(target, source) ==
  LET merged[old \in SubTrees(target)] == [new \in SubTrees(source) |->
        IF ~IsObject(old) \/ ~IsObject(new) THEN new
        ELSE Object([k \in DOMAIN old.fields \cup DOMAIN new.fields |->
                       CASE k \notin DOMAIN new.fields -> old.fields[k]
                         [] k \notin DOMAIN old.fields -> new.fields[k]
                         [] OTHER -> merged[old.fields[k]][new.fields[k]]])]
  IN  merged[target][source]

Failed == [ok |-> FALSE]

\* mergeAndValidate, then the template's build, which may throw.
ValidateComponentConfig(template, given) ==
  LET config == DeepMerge(template.defaults, given)
  IN  IF config \in template.valid /\ template.builds
      THEN [ok |-> TRUE, template |-> template.name, config |-> config] ELSE Failed

\* A path is relative to the configuration file, absolute, or names a package.
ResolveTemplatePath(path) ==
  IF path.from = "." THEN [from |-> "/", name |-> ConfigDir \o path.name] ELSE path

\* The module must be found, have a default export, and that must be a template.
LoadComponentTemplate(path) ==
  LET resolved == ResolveTemplatePath(path)
  IN  IF resolved \in DOMAIN Modules THEN Modules[resolved] ELSE [export |-> "none"]

\* A reference that has a name, even an empty one, is looked up; what is not an object has neither a
\* name nor a path, and cannot be resolved.
ResolveComponentFromReference(kind, ref) ==
  LET given == IF ref.config = None THEN Object(<<>>) ELSE ref.config
      module == LoadComponentTemplate(ref.filepath)
  IN  IF ref.type # "object" THEN Failed
      ELSE IF ref.name # None
      THEN IF ref.name \in DOMAIN Registry[kind]
           THEN ValidateComponentConfig(Registry[kind][ref.name], given) ELSE Failed
      ELSE IF module.export = "template"
      THEN ValidateComponentConfig(module.template, given) ELSE Failed
-----------------------------------------------------------------------------
(* The configuration file *)

RequiredKeys == Kinds \cup {"system-prompt", "provider", "model", "thinking-level", "agent-options",
                            "extensions"}

Given(string) == string \notin {None, ""}

\* What is not an object is let through: the callers ignore the answer.  An empty path is None.
ValidReference(ref) ==
  ref.type = "object" =>
    /\ Given(ref.name) # (ref.filepath # None)
    /\ ref.config # None => IsObject(ref.config)

ValidConfig(file) ==
  LET config == file.content
  IN  /\ file.readable /\ file.format \in {"json", "yaml"} /\ file.parses
      /\ IsObject(config) /\ RequiredKeys \subseteq DOMAIN config.fields
      /\ LET value == config.fields
         IN  /\ \A k \in {"system-prompt", "provider", "model"} : Given(value[k])
             /\ value["thinking-level"] \in Levels
             /\ IsObject(value["agent-options"])
             /\ value["extensions"] # None
             /\ \A k \in Kinds : ValidReference(value[k])
             /\ \A n \in DOMAIN value["extensions"] : ValidReference(value["extensions"][n])

\* A configuration is a finite tree, and what is absent is no leaf of it.
Nested(tree) == /\ \A t \in SubTrees(tree) : t # Leaf(None)
                /\ \A n \in Nodes(tree)[MaxDepth] : ~IsObject(n[2])

ASSUME DepthAssumption == MaxDepth \in Nat \ {0}

ASSUME ConfigurationAssumption ==
  /\ \A kind \in Kinds : \A name \in DOMAIN Registry[kind] : Nested(Registry[kind][name].defaults)
  /\ \A path \in DOMAIN Modules :
       Modules[path].export = "template" => Nested(Modules[path].template.defaults)
  /\ \A call \in Starts : ValidConfig(call.file) =>
       LET value == call.file.content.fields
       IN  /\ \A kind \in Kinds : value[kind].type = "object" /\ value[kind].config # None
                                  => Nested(value[kind].config)
           /\ value["extensions"] \in Seq(Range(value["extensions"]))  \* an array

Value(key) == start.file.content.fields[key]
-----------------------------------------------------------------------------
(* main *)

\* No arguments ask for help; an option that is not known throws.
ParseCliArgs ==
  LET args == start.args
      known == args.command \in {"none", "help", "version", "run"}
  IN  /\ at = "arguments"
      /\ \/ args.command \in {"none", "help", "version"} /\ Exit(0)
         \/ /\ args.command = "run" /\ ~args.odd /\ args.config /\ args.mode \in {None, "rpc"}
            /\ Proceed("config")
         \/ args.command = "run" /\ (args.odd \/ ~args.config \/ args.mode \notin {None, "rpc"})
            /\ Exit(1)
         \/ ~known /\ Exit(1)
      /\ UNCHANGED <<start, built, loaded, tried, runner>>

ParseOtterConfig ==
  /\ at = "config"
  /\ IF ValidConfig(start.file) THEN Proceed("environment") ELSE Exit(1)
  /\ UNCHANGED <<start, built, loaded, tried, runner>>

\* The components are resolved one after the other.
After == [kind \in Kinds |-> CASE kind = "environment" -> "session-manager"
                               [] kind = "session-manager" -> "auth-storage"
                               [] kind = "auth-storage" -> "model"]

ResolveComponentOrExit(kind) ==
  LET ref == Value(kind)
      component == ResolveComponentFromReference(kind, ref)
  IN  /\ at = kind
      /\ IF component.ok
         THEN Proceed(After[kind]) /\ built' = [built EXCEPT ![kind] = component]
         ELSE Exit(1) /\ UNCHANGED built
      /\ UNCHANGED <<start, loaded, tried, runner>>

FindModel ==
  /\ at = "model"
  /\ IF <<Value("provider"), Value("model")>> \in Models THEN Proceed("extensions") ELSE Exit(1)
  /\ UNCHANGED <<start, built, loaded, tried, runner>>

\* What `in' looks into: an object, or an array, which has no name.
HasKeys(ref) == ref.type # "other"

\* One extension after the other; one that cannot be built is skipped, an array too, but what is
\* neither an object nor an array throws before its resolution is tried.
LoadExtensions ==
  LET refs == Value("extensions")
      ref == refs[tried + 1]
  IN  /\ at = "extensions"
      /\ \/ /\ tried < Len(refs) /\ HasKeys(ref)
            /\ tried' = tried + 1
            /\ loaded' = IF ResolveComponentFromReference("extension", ref).ok
                         THEN Append(loaded, ref) ELSE loaded
            /\ UNCHANGED <<at, exitCode>>
         \/ /\ tried < Len(refs) /\ ~HasKeys(ref)
            /\ Exit(1) /\ UNCHANGED <<tried, loaded>>
         \/ tried = Len(refs) /\ Proceed("session") /\ UNCHANGED <<tried, loaded>>
      /\ UNCHANGED <<start, built, runner>>

\* The session is created with the extensions and its handler started; it may be refused by the
\* session manager.
ServeSession ==
  /\ at = "session"
  /\ Proceed("serving") \/ Exit(1)
  /\ UNCHANGED <<start, built, loaded, tried, runner>>

Startup ==
  \/ ParseCliArgs
  \/ ParseOtterConfig
  \/ \E kind \in Kinds : ResolveComponentOrExit(kind)
  \/ FindModel
  \/ LoadExtensions
  \/ ServeSession
-----------------------------------------------------------------------------
(***************************************************************************)
(* Properties                                                              *)
(***************************************************************************)

\* What a tree has at a path.
TreeAt(tree, path) ==
  FoldLeft(LAMBDA t, k : IF IsObject(t) /\ k \in DOMAIN t.fields THEN t.fields[k] ELSE Leaf(None),
           tree, path)

Paths(tree) == UNION {{n[1] : n \in level} : level \in Range(Nodes(tree))}

\* The merged tree has at every path what the source has there, and what the target has where the
\* source says nothing, neither at the path nor above it.
Merged(tree, target, source) ==
  LET same(t, u) == t = u \/ (IsObject(t) /\ IsObject(u))
      replaced(p) == \E n \in 0 .. Len(p) : ~IsObject(TreeAt(source, SubSeq(p, 1, n)))
                                            /\ TreeAt(source, SubSeq(p, 1, n)) # Leaf(None)
  IN  \A p \in Paths(tree) \cup Paths(target) \cup Paths(source) :
        IF TreeAt(source, p) # Leaf(None) THEN same(TreeAt(tree, p), TreeAt(source, p))
        ELSE IF replaced(p) THEN TreeAt(tree, p) = Leaf(None)
        ELSE same(TreeAt(tree, p), TreeAt(target, p))

\* The template that a reference names.
Template(kind, ref) ==
  IF ref.name # None THEN Registry[kind][ref.name]
                     ELSE Modules[ResolveTemplatePath(ref.filepath)].template

\* Every component is built of the template its reference names, from the template's defaults under
\* the reference's settings, wherever they are in the tree.  The session is given every extension
\* that can be built, in their order, whichever of them fail.
StartedAsConfigured ==
  /\ \A kind \in Kinds : built[kind] # None =>
       LET ref == Value(kind)
           template == Template(kind, ref)
       IN  /\ built[kind].template = template.name
           /\ Merged(built[kind].config, template.defaults,
                     IF ref.config = None THEN Object(<<>>) ELSE ref.config)
  /\ at = "serving" =>
       LET refs == Value("extensions")
           works(n) == ResolveComponentFromReference("extension", refs[n]).ok
       IN  loaded = FlattenSeq([n \in DOMAIN refs |-> IF works(n) THEN <<refs[n]>> ELSE <<>>])
=============================================================================
