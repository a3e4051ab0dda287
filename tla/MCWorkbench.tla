---------------------------- MODULE MCWorkbench ----------------------------
EXTENDS Workbench
MCNameOrder == <<"remote", "retention.bytes", "retention.ms", "segment.bytes">>
\* A topic without overrides, one with values the form cannot hold, and one
\* with values it can.
MCStartTopics ==
    {<<>>, [n \in {"retention.ms", "remote"} |-> "odd"],
     [n \in {"retention.bytes", "segment.bytes"} |-> "x"]}

\* One message without a key, and one without a value or headers.
MCMessages ==
    {[text |-> [key |-> "none", value |-> "j"], serde |-> [s \in Sides |-> "avro"],
      params |-> [s \in Sides |-> "sub1"], headers |-> "h", partition |-> 1],
     [text |-> [key |-> "j", value |-> "none"], serde |-> [s \in Sides |-> "str"],
      params |-> [s \in Sides |-> "none"], headers |-> "none", partition |-> 0]}
=============================================================================
