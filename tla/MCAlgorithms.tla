---------------------------- MODULE MCAlgorithms ----------------------------
EXTENDS Spans, Roles, Contexts, Documents, Names, Windows, Entities, Refine, Numbers, Identifiers, Addresses, Contract, Transform

Init == input = NoCase
Next == \/ TryResolve \/ TryTails \/ TryBoundaries \/ TryMerge \* Spans
        \/ TryTrim \/ TryAccept                                \* Roles
        \/ TryPrefix \/ TryName                                \* Contexts
        \/ TryDocument \/ TryRecord                            \* Documents
        \/ TryPerson \/ TryField \/ TryJoined                  \* Names
        \/ TryChunks \/ TryWindows \/ TryBatch \/ TryGraphs     \* Windows
        \/ TryEntities                                         \* Entities
        \/ TryIssuer \/ TryPlace                               \* Places
        \/ TryRefine \/ TryOwner \/ TryRuns                     \* Refine
        \/ TryCheck \/ TryDate \/ TryWords \/ TryDateOwner      \* Numbers
        \/ TryNumber \/ TryIp                                  \* Identifiers
        \/ TryAddress \/ TryAddressField                       \* Addresses
        \/ TryStart \/ TryWire \/ TryPolicy                    \* Contract
        \/ TryMask                                             \* Transform
Spec == Init /\ [][Next]_input


\* Roles, Names, Entities, Refine, Numbers, Identifiers, Addresses, Transform: a value is found
\* from its first part to its last, by the rules and by the model, in the orders and joins that
\* each property names with the parts it leaves out (WholeNameOneSpan, WholeAddressOneSpan), is
\* what its checks say, and is replaced by one token that brings it back.
ValuesAreWhole ==
  /\ TrimKeepsNames /\ BestScoreKept
  /\ WholeNameOneSpan /\ FieldMasksNamesOnly /\ EveryJointIsTried
  /\ EntitiesFollowLabels /\ ProfileJoinsOverBlanks
  /\ RefineKeepsValues /\ ListsAreNotDecimals
  /\ CheckDigitsCatchTypos /\ DateChecksAgree /\ NoCenturyIsInferred /\ OneWritingEach
  /\ ComponentsShareTheirAddress
  /\ WholeAddressOneSpan /\ NoPartialAddress /\ FieldAddressIsWhole
  /\ TokensComeBack /\ RestoredWithinLimit /\ ReplacedAlike
=============================================================================
