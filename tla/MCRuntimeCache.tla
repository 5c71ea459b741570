--------------------------- MODULE MCRuntimeCache ---------------------------
(* Two setups on one macOS machine, the Node of one built for each             *)
(* architecture, and a server process that asks for the status.               *)
EXTENDS RuntimeCache

CONSTANTS s1, s2, reader

MCSetups == {s1, s2}
MCLevels == [p \in MCSetups |-> IF p = s1 THEN {"capture"} ELSE {"server", "assets"}]
MCPlatformOf == [p \in MCSetups |->
  [os |-> "osx", architecture |-> IF p = s1 THEN "arm64" ELSE "x86_64"]]

Rule(allow, os) == [allow |-> allow, os |-> os, arch |-> NoValue]
Classifier(os, arch, plain) == [os |-> os, arch |-> arch, plain |-> plain]
Library(path, classifier, rules) ==
  [path |-> path, hash |-> path, artifact |-> TRUE, rules |-> rules,
   classifier |-> classifier, natives |-> {}, classifiers |-> {}]

\* As the version metadata publishes native libraries: of a system and its historical
\* architecture, of another architecture, of a system on any architecture, and
\* libraries that are no natives, one by its rules not for macOS.
MCLibraries ==
  <<Library("natives-linux", Classifier("linux", NoValue, TRUE), <<Rule(TRUE, "linux")>>),
    Library("natives-macos", Classifier("osx", NoValue, TRUE), <<Rule(TRUE, "osx")>>),
    Library("natives-macos-arm64", Classifier("osx", "arm64", FALSE), <<Rule(TRUE, "osx")>>),
    Library("natives-macos-patch", Classifier("osx", NoValue, FALSE), <<Rule(TRUE, "osx")>>),
    Library("not-on-macos", NoValue, <<Rule(TRUE, NoValue), Rule(FALSE, "osx")>>)>>
MCLoader == {[path |-> "fabric", hash |-> "fabric"]}
MCMaxRuns == [p \in MCSetups \cup {reader} |-> IF p = reader THEN 2 ELSE 1]
=============================================================================
