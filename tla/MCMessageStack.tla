---------------------------- MODULE MCMessageStack ----------------------------
(* A message with a scalar, a message that says which part it is in and has *)
(* messages of its own, and a repeated message with one.                     *)
EXTENDS MessageStack

Field(id, containing_type, message_type, repeated, in_head) ==
  [id |-> id, containing_type |-> containing_type, message_type |-> message_type,
   repeated |-> repeated, in_head |-> in_head]

MCFields ==
  {Field(1, "Root", Scalar, FALSE, "unset"),
   Field(2, "Root", Scalar, TRUE, "unset"),
   Field(3, "Root", "Child", FALSE, "HEAD"),
   Field(4, "Root", "Element", TRUE, "unset"),
   Field(5, "Child", Scalar, FALSE, "unset"),
   Field(6, "Child", "Grandchild", FALSE, "BODY"),
   Field(7, "Child", "Element", TRUE, "unset"),
   Field(8, "Element", "Grandchild", FALSE, "unset"),
   Field(9, "Grandchild", Scalar, FALSE, "unset")}
=============================================================================
