---------------------------- MODULE MCMultipart ----------------------------
(* Model values for the threads and upload ids of Multipart. *)
EXTENDS Multipart

CONSTANTS p1, p2, u1, u2

OneThread == {p1}
TwoThreads == {p1, p2}
TwoUploads == {u1, u2}
OneUpload == {u1}
=============================================================================
