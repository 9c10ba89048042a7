------------------------------ MODULE MCJsCode ------------------------------
(* Every script of the families of JsPrograms is compiled and run.         *)
EXTENDS JsCode, JsPrograms
====
