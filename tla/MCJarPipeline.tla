---------------------------- MODULE MCJarPipeline ----------------------------
(* Instances of JarPipeline for TLC.                                       *)
EXTENDS JarPipeline

CONSTANTS app, notes,        \* a JVM workspace root and one that is not
          stdlib, local      \* a JAR of the Gradle cache, a configured one

BothRoots == {app, notes}
JustApp == {app}
Gradle == {stdlib}
OwnNone == [d \in BothRoots |-> {}]

AnyEvent == {"Reindex", "ChangeRoot", "OpenedDocument"}
==============================================================================
