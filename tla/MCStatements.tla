------------------------------ MODULE MCStatements ------------------------------
EXTENDS Reading, Statements, PythonFiles
================================================================================
