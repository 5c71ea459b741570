---------------------------- MODULE ClientRuntime ----------------------------
(***************************************************************************)
(* createClientRuntimeManifest of src/minecraft/client-runtime.ts and      *)
(* addPinnedCaptureLoader of client-capture-runtime.ts: which artifacts of *)
(* the version metadata and the asset index make up the runtime of the     *)
(* client on one platform.                                                 *)
(*                                                                         *)
(* The metadata is a constant, for it is pinned by its hash.  An artifact  *)
(* is its path in the cache; the paths of the metadata, the client, the    *)
(* index and the log configuration are FixedArtifacts.  Left out: URLs,    *)
(* the syntax of names, regular expressions, features, and the limits.     *)
(***************************************************************************)
EXTENDS Naturals, FiniteSets, Sequences

CONSTANTS
  FixedArtifacts, \* one each of the metadata, client, index and logging
  Libraries,      \* the libraries, in the order of the metadata
  Assets,         \* asset objects: [name, hash, size]
  LoaderLibraries, \* libraries of the loader that the project pins: [path, hash]
  NoValue

OSNames == {"linux", "osx", "windows"}
Architectures == {"x86_64", "x86", "arm64", "arm32"}

Platforms == [os : OSNames, architecture : Architectures]

\* currentClientRuntimePlatform: what rules and templates call the architecture.
RuleArchitecture(platform) ==
  CASE platform.architecture = "arm64" -> "aarch64"
    [] platform.architecture = "arm32" -> "arm"
    [] OTHER -> platform.architecture
Bits(platform) == IF platform.architecture \in {"x86_64", "arm64"} THEN 64 ELSE 32

-----------------------------------------------------------------------------
RuleMatches(rule, platform) ==
  /\ rule.os \in {NoValue, platform.os}
  /\ rule.arch \in {NoValue, RuleArchitecture(platform)}

\* Of the rules that match, the last one decides; if none does, the answer is no.
EvaluateRules(rules, platform) ==
  LET matching == {i \in DOMAIN rules : RuleMatches(rules[i], platform)}
  IN  \/ rules = <<>>
      \/ \E i \in matching : rules[i].allow /\ \A k \in matching : k <= i

\* Defect: the architecture in the classifier is not looked at.
ClassifierOfOS(classifier, platform) ==
  classifier = NoValue \/ classifier.os \in {NoValue, platform.os}

\* The architecture that a classifier tells: the one it names or, if it is exactly
\* natives-linux, natives-macos or natives-windows (plain), x86_64.  Any other tells
\* none, be it of a system (natives-macos-patch, osx-universal) or not (unsafe).
ArchitectureOf(classifier) ==
  IF classifier.arch = NoValue /\ classifier.plain THEN "x86_64" ELSE classifier.arch

\* libraryClassifierMatchesArchitecture: what is not told fits everywhere.
ClassifierMatches(classifier, platform) ==
  \/ classifier = NoValue
  \/ /\ classifier.os \in {NoValue, platform.os}
     /\ ArchitectureOf(classifier) \in {NoValue, platform.architecture}

Applies(library, platform) ==
  EvaluateRules(library.rules, platform) /\ ClassifierMatches(library.classifier, platform)

\* nativeClassifier: the key of the native archive a library has for the
\* platform, with the word size where the template asks for it.
NativeKeys(library, platform) ==
  {<<t.name, IF t.sized THEN Bits(platform) ELSE NoValue>> :
     t \in {u \in library.natives : u.os = platform.os}}

Native(library, key) == [path |-> <<library.path, key>>, hash |-> <<library.hash, key>>]

\* assetObjectArtifacts: one artifact per hash, whatever number of names it has.
AssetArtifacts == {[path |-> a.hash, hash |-> <<a.hash, a.size>>] : a \in Assets}

\* The libraries that the platform is given.
Given(platform) == {Libraries[i] : i \in {k \in DOMAIN Libraries : Applies(Libraries[k], platform)}}

\* What is added besides the archives of the libraries themselves.
AddedBesides(platform) ==
  {[path |-> f, hash |-> f] : f \in FixedArtifacts}
    \cup UNION {{Native(l, key) : key \in NativeKeys(l, platform)} : l \in Given(platform)}
    \cup AssetArtifacts
    \cup LoaderLibraries

\* Every artifact that is added under its path, by the metadata and the loader.
Added(platform) ==
  {[path |-> l.path, hash |-> l.hash] : l \in {m \in Given(platform) : m.artifact}}
    \cup AddedBesides(platform)

\* addArtifact refuses another artifact at one path; a native that the template
\* names has to be published.
Consistent(platform) ==
  /\ \A a, b \in Added(platform) : a.path = b.path => a = b
  /\ \A i \in DOMAIN Libraries : Applies(Libraries[i], platform) =>
       NativeKeys(Libraries[i], platform) \subseteq Libraries[i].classifiers

Artifacts(platform) == {a.path : a \in Added(platform)}

-----------------------------------------------------------------------------
\* Libraries with a classifier, among them the native archives.  The metadata, which
\* the project pins, publish each under a path of its own.
Classified == {l \in {Libraries[i] : i \in DOMAIN Libraries} : l.classifier # NoValue}
ASSUME PathsAssumption ==
  \A l \in Classified :
    /\ \A i \in DOMAIN Libraries : Libraries[i].path = l.path => Libraries[i] = l
    /\ \A platform \in Platforms : \A a \in AddedBesides(platform) : a.path # l.path
==============================================================================
